---- MODULE Spec2Model ----
(***************************************************************************)
(* A model of the kettlingar RPC core (src/src/kettlingar/rpckitten.py):   *)
(* the streaming wrapper and the chunked wire format, the call client's    *)
(* reply parser and chunk decoder, and the request pipeline of a worker    *)
(* (authentication, handler lookup, descriptor arguments, reply            *)
(* redirection).                                                           *)
(*                                                                         *)
(* Wire bytes are modelled as sequences of atoms.  An atom is one model    *)
(* byte: "\r", "\n", a hexadecimal digit or a payload character.  A line   *)
(* of a response head ("HTTP/1.1 200 OK", "Content-Type: ...") is a        *)
(* single atom; heads are never split inside a line.  Lengths are counted  *)
(* in atoms.                                                               *)
(***************************************************************************)
EXTENDS Integers, Sequences, FiniteSets, TLC

CR == "\r"
LF == "\n"

(***************************************************************************)
(* Bounds of the model.                                                    *)
(***************************************************************************)
MaxFrags == 4      \* fragments of an arbitrary reply stream (SpecDecoder)
MaxItems == 3      \* events of a streaming handler before it must stop

(***************************************************************************)
(* Generic helpers on sequences.                                           *)
(***************************************************************************)
Drop(s, k) == SubSeq(s, k + 1, Len(s))
Take(s, k) == SubSeq(s, 1, k)

IsPrefixAt(pat, s, i) ==
    /\ i + Len(pat) - 1 <= Len(s)
    /\ \A j \in 1..Len(pat) : s[i + j - 1] = pat[j]

RECURSIVE IndexFrom(_, _, _)
IndexFrom(pat, s, i) ==
    IF i + Len(pat) - 1 > Len(s) THEN 0
    ELSE IF SubSeq(s, i, i + Len(pat) - 1) = pat THEN i
    ELSE IndexFrom(pat, s, i + 1)

\* bytes.index(pat): the first position where pat occurs, 0 when it does
\* not occur (Python raises ValueError there).
Index(pat, s) == IndexFrom(pat, s, 1)

(***************************************************************************)
(* Values that handlers emit and clients receive.  One record shape for    *)
(* all of them: t is the type, n an integer payload, b a byte payload.     *)
(***************************************************************************)
IntV(n)   == [t |-> "int",   n |-> n, b |-> <<>>]
BytesV(b) == [t |-> "bytes", n |-> 0, b |-> b]
\* {'error': ...} with n = 0, plus 'traceback' with n = 1, plus
\* 'needed_vars' and 'resource' with n = 2
ErrV(n)   == [t |-> "err",   n |-> n, b |-> <<>>]
NoneV     == [t |-> "none",  n |-> 0, b |-> <<>>]
\* a string, one atom
StrV(a)   == [t |-> "str",   n |-> 0, b |-> <<a>>]
\* an open file and a socket; n identifies the open file description
FdV(n)    == [t |-> "fd",    n |-> n, b |-> <<>>]
SockV(n)  == [t |-> "sock",  n |-> n, b |-> <<>>]
\* a mapping without 'error': {} with n = 0, {'replied_to_first_fd': true}
\* with n = 1, the reply of an authenticated ping with n = 2
DictV(n)  == [t |-> "dict",  n |-> n, b |-> <<>>]
\* a list of one placeholder string, and the list of one open file that
\* the client makes of it
ListV(a)  == [t |-> "list",  n |-> 0, b |-> <<a>>]
FdListV(n) == [t |-> "fdlist", n |-> n, b |-> <<>>]
\* {'error': m, ...}: an error record with the message m, a sequence of
\* atoms
ErrMsgV(n, m) == [t |-> "err", n |-> n, b |-> m]
\* HttpResult(mimetype, data): n indexes the mimetype, b is the data
HttpResultV(m, b) == [t |-> "httpresult", n |-> m, b |-> b]

(***************************************************************************)
(* Numbers on the wire: '%x' % n, int(s, 16), and the decimal digits that  *)
(* json.dumps writes for an integer.                                       *)
(***************************************************************************)
HexDigits == <<"0", "1", "2", "3", "4", "5", "6", "7",
               "8", "9", "a", "b", "c", "d", "e", "f">>
DecDigits == SubSeq(HexDigits, 1, 10)

DigitVal(c) == (CHOOSE i \in 1..16 : HexDigits[i] = c) - 1
IsHexDigit(c) == \E i \in 1..16 : HexDigits[i] = c
IsDecDigit(c) == \E i \in 1..10 : HexDigits[i] = c

RECURSIVE Digits(_, _)
Digits(n, base) ==
    IF n < base THEN <<HexDigits[n + 1]>>
    ELSE Digits(n \div base, base) \o <<HexDigits[(n % base) + 1]>>

RECURSIVE ParseDigits(_, _, _)
ParseDigits(s, base, acc) ==
    IF s = <<>> THEN acc
    ELSE ParseDigits(Tail(s), base, acc * base + DigitVal(Head(s)))

(***************************************************************************)
(* Codecs.  to_json writes json.dumps(data) plus a newline; from_json is   *)
(* json.loads, which skips surrounding whitespace.  The values of the      *)
(* model are integers and the error records of the worker.                 *)
(***************************************************************************)
ErrTag(n) == CASE n = 0 -> <<>> [] n = 1 -> <<"T">> [] OTHER -> <<"N">>

DictTag(n) == CASE n = 0 -> <<>> [] n = 1 -> <<"R">> [] OTHER -> <<"P">>

to_json(v) ==
    CASE v.t = "int" -> Digits(v.n, 10) \o <<LF>>
      [] v.t = "str" -> <<"\"">> \o v.b \o <<"\"", LF>>
      [] v.t = "list" -> <<"[", "\"">> \o v.b \o <<"\"", "]", LF>>
      [] v.t = "dict" -> <<"{">> \o DictTag(v.n) \o <<"}", LF>>
      [] OTHER -> <<"{", "E">> \o v.b \o ErrTag(v.n) \o <<"}", LF>>

IsSpace(c) == c \in {CR, LF}

RECURSIVE LStrip(_)
LStrip(s) == IF s # <<>> /\ IsSpace(Head(s)) THEN LStrip(Tail(s)) ELSE s

RECURSIVE RStrip(_)
RStrip(s) ==
    IF s # <<>> /\ IsSpace(s[Len(s)]) THEN RStrip(Take(s, Len(s) - 1)) ELSE s

\* json.loads on the texts of the model: [ok, val]; ok = FALSE stands for
\* the JSONDecodeError (a ValueError) that json.loads raises.
from_json(jd) ==
    LET s == RStrip(LStrip(jd))
        bad == [ok |-> FALSE, val |-> NoneV]
    IN  IF s = <<>> THEN bad
        ELSE IF \A i \in 1..Len(s) : IsDecDigit(s[i])
        THEN IF Len(s) > 1 /\ s[1] = "0" THEN bad
             ELSE [ok |-> TRUE, val |-> IntV(ParseDigits(s, 10, 0))]
        ELSE IF Len(s) = 3 /\ s[1] = "\"" /\ s[3] = "\""
        THEN [ok |-> TRUE, val |-> StrV(s[2])]
        ELSE IF Len(s) = 5 /\ s[1] = "[" /\ s[2] = "\"" /\ s[4] = "\"" /\ s[5] = "]"
        THEN [ok |-> TRUE, val |-> ListV(s[3])]
        ELSE IF Len(s) < 2 \/ s[1] # "{" \/ s[Len(s)] # "}" THEN bad
        ELSE LET body == SubSeq(s, 2, Len(s) - 1) IN
             IF \E n \in 0..2 : body = DictTag(n)
             THEN [ok |-> TRUE,
                   val |-> DictV(CHOOSE n \in 0..2 : body = DictTag(n))]
             ELSE IF body[1] # "E" THEN bad
             ELSE LET n == IF body[Len(body)] = "T" THEN 1
                           ELSE IF body[Len(body)] = "N" THEN 2 ELSE 0
                      msg == SubSeq(body, 2, Len(body) - (IF n = 0 THEN 0 ELSE 1))
                  IN [ok |-> TRUE, val |-> [t |-> "err", n |-> n, b |-> msg]]

(***************************************************************************)
(* Chunk framing.                                                          *)
(***************************************************************************)
\* _send_chunked: '%x\r\n' % len(data), data, '\r\n'
ChunkBytes(data) == Digits(Len(data), 16) \o <<CR, LF>> \o data \o <<CR, LF>>

ZeroChunk == ChunkBytes(<<>>)

\* int(ln, 16) succeeds on a non-empty run of hexadecimal digits
IsHexNumber(ln) == ln # <<>> /\ \A i \in 1..Len(ln) : IsHexDigit(ln[i])

\* the test that decides whether the buffer holds a whole chunk
ChunkComplete(data, ln) == Len(data) >= ln + 2

\* _http11_chunk(buffer): [found, chunk, rest]; found = FALSE is the
\* (None, buffer) return.
Http11Chunk(buffer) ==
    LET i == Index(<<CR, LF>>, buffer)
        ln == Take(buffer, i - 1)
        data == Drop(buffer, i + 1)
        none == [found |-> FALSE, chunk |-> <<>>, rest |-> buffer]
    IN  IF i = 0 \/ ~IsHexNumber(ln) THEN none
        ELSE LET n == ParseDigits(ln, 16, 0) IN
             IF ChunkComplete(data, n)
             THEN [found |-> TRUE, chunk |-> Take(data, n), rest |-> Drop(data, n + 2)]
             ELSE none

(***************************************************************************)
(* Response heads.  Every line of a head is one atom followed by "\n".     *)
(***************************************************************************)
\* _HTTP_RESPONSE[code], and _HTTP_RESPONSE_UNKNOWN for other codes
StatusLine(code) ==
    CASE code = 200 -> "HTTP/1.1 200 OK"
      [] code = 202 -> "HTTP/1.1 202 Accepted"
      [] code = 302 -> "HTTP/1.1 302 Moved Permanently"
      [] code = 400 -> "HTTP/1.1 400 Invalid Request"
      [] code = 401 -> "HTTP/1.1 401 Unauthorized"
      [] code = 403 -> "HTTP/1.1 403 Access Denied"
      [] code = 404 -> "HTTP/1.1 404 Not Found"
      [] code = 423 -> "HTTP/1.1 423 Locked"
      [] code = 500 -> "HTTP/1.1 500 Internal Error"
      [] OTHER -> "HTTP/1.1 %d Unknown"

HTTP_RESPONSE(code) == <<StatusLine(code), LF>>

\* the status codes that _HTTP_RESPONSE has a line for
KnownCodes == {200, 302, 400, 401, 403, 404, 423, 500}

ContentTypeLine(mt) ==
    CASE mt = "application/json" -> "Content-Type: application/json"
      [] mt = "application/octet-stream" -> "Content-Type: application/octet-stream"
      [] OTHER -> "Content-Type: text/plain"

HTTP_MIMETYPE(mt) == <<ContentTypeLine(mt), LF, "Connection: close", LF, LF>>

HTTP_JSON == HTTP_MIMETYPE("application/json")

HTTP_200_OK(mt) == <<"HTTP/1.1 200 OK", LF>> \o HTTP_MIMETYPE(mt)

HTTP_200_CHUNKED_OK(mt) ==
    <<"HTTP/1.1 200 OK", LF, "Transfer-Encoding: chunked", LF>> \o HTTP_MIMETYPE(mt)

\* '{"replied_to_first_fd": true}\n' behind the head of a 202
HTTP_202_REPLIED_TO_FIRST_FD ==
    <<"HTTP/1.1 202 Accepted", LF>> \o HTTP_JSON \o to_json(DictV(1))

\* the 200 response of an unauthenticated ping
HTTP_200_STATIC_PONG ==
    <<"HTTP/1.1 200 OK", LF>> \o HTTP_MIMETYPE("text/plain") \o <<"Pong", LF>>

\* the headers and body of a 404
HTTP_NOT_FOUND == HTTP_JSON \o to_json(ErrMsgV(0, <<"Not Found">>))

\* the headers and body of a redirect to the one target of the model
HTTP_MOVED ==
    <<"Content-Type: application/json", LF, "Connection: close", LF,
      "Location: /target", LF, LF, "{", "redirect", "}", LF>>

(***************************************************************************)
(* Reading a head, as _http11 does for requests and for replies.           *)
(***************************************************************************)
\* the text of a status line, split at white space: [ok, code]; ok = FALSE
\* when the line has no second word or the word is no integer
StatusOf(line) ==
    IF Len(line) = 1 /\ \E c \in KnownCodes \cup {202} : line[1] = StatusLine(c)
    THEN [ok |-> TRUE,
          code |-> CHOOSE c \in KnownCodes \cup {202} : line[1] = StatusLine(c)]
    ELSE [ok |-> FALSE, code |-> 0]

\* l.split(': ', 1) on a header line: [ok, k, v, n]; the value of a
\* Content-Length line is its digits, n their number
HeaderOf(line) ==
    LET a == IF Len(line) >= 1 THEN line[1] ELSE ""
        hdr(k, v) == [ok |-> Len(line) = 1, k |-> k, v |-> v, n |-> 0]
    IN
    CASE a = "Transfer-Encoding: chunked" -> hdr("Transfer-Encoding", "chunked")
      [] a = "Content-Type: application/json" -> hdr("Content-Type", "application/json")
      [] a = "Content-Type: application/octet-stream" ->
            hdr("Content-Type", "application/octet-stream")
      [] a = "Content-Type: text/plain" -> hdr("Content-Type", "text/plain")
      [] a = "Connection: close" -> hdr("Connection", "close")
      [] a = "Location: /target" -> hdr("Location", "/target")
      [] a = "Content-Length: " ->
            [ok |-> TRUE, k |-> "Content-Length", v |-> "",
             n |-> IF Len(line) > 1 /\ \A i \in 2..Len(line) : IsDecDigit(line[i])
                   THEN ParseDigits(Tail(line), 10, 0) ELSE 0]
      [] OTHER -> [ok |-> FALSE, k |-> "", v |-> "", n |-> 0]

\* str.splitlines(): lines end at "\r\n", "\n" or "\r"
RECURSIVE SplitLines(_, _)
SplitLines(s, cur) ==
    IF s = <<>> THEN (IF cur = <<>> THEN <<>> ELSE <<cur>>)
    ELSE IF Head(s) = CR /\ Len(s) > 1 /\ s[2] = LF
         THEN <<cur>> \o SplitLines(Drop(s, 2), <<>>)
    ELSE IF Head(s) \in {CR, LF}
         THEN <<cur>> \o SplitLines(Tail(s), <<>>)
    ELSE SplitLines(Tail(s), Append(cur, Head(s)))

\* the offset of the body behind the end of the header block
BodyOffset(eomLen) == 2

\* the head of the bytes read so far: [found, hlines, body, hend, eomLen],
\* hend counted from 0 as request.index(eom) counts.  found is
\* FALSE while no header block has been read completely; the first newline
\* sets the line ending, the block ends at the first doubled line ending,
\* and the body is request[hend+2:].
ParseHead(request) ==
    LET nl1 == Index(<<LF>>, request)
        before == IF nl1 > 1 THEN request[nl1 - 1] ELSE request[Len(request)]
        eol == IF before = CR THEN <<CR, LF>> ELSE <<LF>>
        eom == eol \o eol
        hend == IF nl1 = 0 THEN 0 ELSE Index(eom, request)
    IN  IF nl1 = 0 \/ hend <= 1
        THEN [found |-> FALSE, hlines |-> <<>>, body |-> <<>>, hend |-> 0,
              eomLen |-> 0]
        ELSE [found |-> TRUE,
              hlines |-> SplitLines(Take(request, hend - 1), <<>>),
              body |-> Drop(request, hend - 1 + BodyOffset(Len(eom))),
              hend |-> hend - 1,
              eomLen |-> Len(eom)]

\* headers = dict(l.split(': ', 1) for l in hlines[1:]) raises ValueError
\* when a line has no ': '
HeadersOk(hlines) == \A i \in 2..Len(hlines) : HeaderOf(hlines[i]).ok

\* headers.get(k), "" when absent (a later line overrides an earlier one)
HeaderGet(hlines, k) ==
    LET hits == { i \in 2..Len(hlines) : HeaderOf(hlines[i]).k = k } IN
    IF hits = {} THEN ""
    ELSE HeaderOf(hlines[CHOOSE i \in hits : \A j \in hits : j <= i]).v

\* int(headers.get('Content-Length', 0))
ContentLength(hlines) ==
    LET hits == { i \in 2..Len(hlines) : HeaderOf(hlines[i]).k = "Content-Length" } IN
    IF hits = {} THEN 0
    ELSE HeaderOf(hlines[CHOOSE i \in hits : \A j \in hits : j <= i]).n

(***************************************************************************)
(* Requests as call() writes them and _serve_http reads them.  The path     *)
(* is a sequence of atoms, "/" and the names between the slashes; the      *)
(* words of the request line are separated by the atom " ".                *)
(***************************************************************************)
UrlPath == "app"         \* config.worker_url_path, where it is set
Secret == "SECRET"       \* the access secret of the worker
MAGIC_FD == "_FD_BRE_MAGIC_-rb"
MAGIC_SOCK == "_SO_BRE_MAGIC_-1-1-0"

\* hasattr(a, 'fileno')
HasFileno(a) == a.t \in {"fd", "sock"}

\* _fd_to_magic_arg(a): a descriptor becomes its placeholder string
FdToMagicArg(a) ==
    CASE a.t = "sock" -> StrV(MAGIC_SOCK)
      [] a.t = "fd" -> StrV(MAGIC_FD)
      [] OTHER -> a

RECURSIVE FdsFromMagicArgs(_, _, _)
\* [_fd_from_magic_arg(a, fds) for a in args]: [ok, args, fds]; a string
\* that starts with a magic prefix takes fds.pop(0), and ok = FALSE is the
\* IndexError of a pop from the empty list
FdsFromMagicArgs(args, fds, acc) ==
    IF args = <<>> THEN [ok |-> TRUE, args |-> acc, fds |-> fds]
    ELSE LET a == Head(args) IN
         IF a.t = "str" /\ a.b[1] \in {MAGIC_SOCK, MAGIC_FD}
         THEN IF fds = <<>> THEN [ok |-> FALSE, args |-> acc, fds |-> fds]
              ELSE FdsFromMagicArgs(Tail(args), Tail(fds),
                       Append(acc, IF a.b[1] = MAGIC_SOCK
                                   THEN SockV(Head(fds)) ELSE FdV(Head(fds))))
         ELSE FdsFromMagicArgs(Tail(args), fds, Append(acc, a))

\* json.dumps of one positional argument
ArgJson(a) ==
    IF a.t = "int" THEN Digits(a.n, 10) ELSE <<"\"", a.b[1], "\"">>

RECURSIVE ArgsJson(_)
ArgsJson(args) ==
    IF args = <<>> THEN <<>>
    ELSE ArgJson(Head(args))
           \o (IF Len(args) > 1 THEN <<",">> ELSE <<>>) \o ArgsJson(Tail(args))

\* to_json(kwargs) of a call: {"reply_to_first_fd": N, "_args": [...]}
KwargsJson(args, replyTo) ==
    <<"{">> \o (IF replyTo >= 0
                THEN <<"reply_to_first_fd">> \o Digits(replyTo, 10) \o <<",">>
                ELSE <<>>)
           \o <<"_args", "[">> \o ArgsJson(args) \o <<"]", "}", LF>>

RECURSIVE DigitRun(_)
DigitRun(s) ==
    IF s # <<>> /\ IsDecDigit(Head(s)) THEN <<Head(s)>> \o DigitRun(Tail(s))
    ELSE <<>>

RECURSIVE ParseArgs(_, _)
\* the items of a JSON list, read behind its "[": [ok, args]
ParseArgs(s, acc) ==
    IF s = <<>> THEN [ok |-> FALSE, args |-> acc]
    ELSE IF Head(s) = "]" THEN [ok |-> Tail(s) = <<"}">>, args |-> acc]
    ELSE IF Head(s) = "," THEN ParseArgs(Tail(s), acc)
    ELSE IF Head(s) = "\"" /\ Len(s) >= 3 /\ s[3] = "\""
         THEN ParseArgs(Drop(s, 3), Append(acc, StrV(s[2])))
    ELSE IF IsDecDigit(Head(s))
         THEN ParseArgs(Drop(s, Len(DigitRun(s))),
                        Append(acc, IntV(ParseDigits(DigitRun(s), 10, 0))))
    ELSE [ok |-> FALSE, args |-> acc]

\* from_json(request_obj.body) for the body of a call, and
\* body.pop('_args', []): [ok, args, replyTo]; replyTo = -1 when the
\* mapping has no 'reply_to_first_fd'
ParseKwargs(body) ==
    LET s == RStrip(LStrip(body))
        bad == [ok |-> FALSE, args |-> <<>>, replyTo |-> -1]
    IN  IF s = <<>> \/ Head(s) # "{" THEN bad
        ELSE LET hasR == Len(s) > 1 /\ s[2] = "reply_to_first_fd"
                 digs == IF hasR THEN DigitRun(Drop(s, 2)) ELSE <<>>
                 rest == IF hasR THEN Drop(s, 3 + Len(digs)) ELSE Tail(s)
             IN  IF hasR /\ digs = <<>> THEN bad
                 ELSE IF Len(rest) < 2 \/ rest[1] # "_args" \/ rest[2] # "["
                 THEN bad
                 ELSE LET r == ParseArgs(Drop(rest, 2), <<>>) IN
                      [ok |-> r.ok, args |-> r.args,
                       replyTo |-> IF hasR THEN ParseDigits(digs, 10, 0) ELSE -1]

\* the path of the call's URL: self._url + '/' + fn, where the URL of the
\* client holds the URL path and the secret, or lacks them
CallPath(c) ==
    (IF c.prefix THEN <<"/", UrlPath>> ELSE <<>>)
      \o (IF c.secret THEN <<"/", Secret>> ELSE <<>>)
      \o <<"/", c.fn>>

\* the arguments as call() sends them: the reply_to socket first
CallArgs(c) == (IF c.replyTo >= 0 THEN <<SockV(9)>> ELSE <<>>) \o c.args

RECURSIVE SelectFds(_)
\* fds = [a.fileno() for a in args if hasattr(a, 'fileno')]
SelectFds(args) ==
    IF args = <<>> THEN <<>>
    ELSE (IF HasFileno(Head(args)) THEN <<Head(args).n>> ELSE <<>>)
           \o SelectFds(Tail(args))

\* http_req of call()
HttpReq(c) ==
    LET payload == KwargsJson([i \in 1..Len(CallArgs(c)) |->
                                  FdToMagicArg(CallArgs(c)[i])], c.replyTo)
    IN  <<"POST", " ">> \o CallPath(c) \o <<" ", "HTTP/1.1", LF,
          "Connection: close", LF,
          "Content-Type: application/json", LF,
          "Content-Length: ">> \o Digits(Len(payload), 10) \o <<LF, LF>>
          \o payload

RECURSIVE SplitWords(_, _)
\* str.split(): the words of a line
SplitWords(s, cur) ==
    IF s = <<>> THEN (IF cur = <<>> THEN <<>> ELSE <<cur>>)
    ELSE IF Head(s) = " "
         THEN (IF cur = <<>> THEN <<>> ELSE <<cur>>) \o SplitWords(Tail(s), <<>>)
    ELSE SplitWords(Tail(s), Append(cur, Head(s)))

WantBytesInit == 8192

\* want_bytes of _http11 when the bytes read so far parse as h
WantBytesOf(request, h) ==
    IF ~h.found THEN WantBytesInit - Len(request)
    ELSE IF ~HeadersOk(h.hlines) THEN 0
    ELSE IF ContentLength(h.hlines) = 0 THEN 0
    ELSE h.hend + h.eomLen + ContentLength(h.hlines) - Len(request)

\* want_bytes of _http11 for the bytes read so far
WantBytes(request) == WantBytesOf(request, ParseHead(request))

(***************************************************************************)
(* State.                                                                  *)
(***************************************************************************)
VARIABLES
    \* ---- the call client
    cpc,        \* "recv": in call(), reading the reply head; "iter": the
                \* caller iterates the chunk decoder; "done"
    inflight,   \* bytes written to the client's connection, not yet read
    eof,        \* the peer has closed the connection
    buffer,     \* call(): the bytes read so far; decoder: its buffer
    ctype,      \* Content-Type of the reply, selects the decoder's decode
    readerOpen, \* decoder: reader is not None
    finished,   \* decoder: finished
    yielded,    \* the items the caller's iteration has received
    outcome,    \* how the call or the iteration ended
    chunks,     \* history: the kinds of the chunks the decoder has cut
    peerGone,   \* the client has dropped its connection
    \* ---- the worker's request (RequestInfo) and its response writers
    spc,        \* position of the worker's task for the request
    authed,     \* request_obj.authed
    sent,       \* request_obj.sent
    rwriter,    \* request_obj.writer: "orig" or "redir"
    out,        \* out[w]: the bytes that writer w has accepted
    wclosed,    \* wclosed[w]: writer w has been closed
    dropped,    \* bytes written to a writer after it was closed
    writes,     \* history: the kind of every write, in order
    logs,       \* number of log records made for the request
    \* ---- the streaming wrapper (raw_method of _wrap_async_generator)
    first,      \* first
    encRaw,     \* enc is the pass-through encoder of a raw mimetype
    respMime,   \* resp_mimetype
    emitted,    \* history: the items the handler has yielded
    hstate,     \* how raw_method ended: "exhausted", "returned", "threw",
                \* "threwIO" (the handler raised), "rejected" (raw_method
                \* raised for an item), "brokenpipe"
    \* ---- the call and the worker's _serve_http task
    cfgUrlPath, \* config.worker_url_path is set (to "app")
    callp,      \* the parameters of the call that was made
    reqInflight,\* request bytes sent, not yet read by the worker
    wireFds,    \* descriptors that travel with the request's first byte
    replyFds,   \* replyFds[w]: descriptors sent with a reply through w
    fdsSent,    \* history: descriptors handed to sendmsg, with the transport
    sbuf,       \* _http11 of the worker: the request bytes read so far
    sfds,       \* _http11 of the worker: fds, a list once a read has been
                \* made; any is the truth value of fds
    lwriter,    \* the local variable writer of _serve_http
    handler,    \* the handler that get_api_methods found: <<kind, name>>
    hkwargs,    \* kwargs still holds 'reply_to_first_fd'
    invoked,    \* the handler whose body has run: <<kind, name>>, or <<>>
    hargs,      \* the positional arguments the handler was invoked with
    events      \* history: the steps of reply redirection and dispatch

cliVars == <<cpc, inflight, eof, buffer, ctype, readerOpen, finished,
             yielded, outcome, chunks, peerGone>>

reqVars == <<spc, authed, sent, rwriter, out, wclosed, dropped, writes, logs>>

genVars == <<first, encRaw, respMime, emitted, hstate>>

srvVars == <<cfgUrlPath, callp, reqInflight, wireFds, replyFds, fdsSent, sbuf, sfds,
             lwriter, handler, hkwargs, invoked, hargs, events>>

\* ---- the state of the parts of the worker that are checked on their own
VARIABLES
    \* ---- the lookup of a handler (get_api_methods)
    registry,   \* the handlers the worker has: a set of <<kind, name>>
    gens,       \* those of them that are async generator functions
    lpath,      \* request_obj.path
    lauthed,    \* request_obj.authed
    lfound      \* what the lookup gave and which handler was then called

lookVars == <<registry, gens, lpath, lauthed, lfound>>

VARIABLES
    \* ---- worker processes, their files, and connect() (SpecLife)
    umask,      \* the file mode creation mask of the processes
    urlfile,    \* the url-file: [exists, mode, content]; content is the
                \* worker whose URL it holds, 0 while it is empty
    sockfile,   \* the sock-file: [exists, mode, owner]
    wk,         \* wk[w]: [pc, log] of worker process w
    fresh,      \* every connect() is made on a new RPCKitten object
    conn,       \* the connect() in progress: [k, tried, auto, pc, proc]
    pings,      \* how the connect() calls made so far have ended
    exposed     \* history: the secret was in a url-file of a wider mode

lifeVars == <<umask, urlfile, sockfile, wk, fresh, conn, pings, exposed>>

\* the event loop of one worker with several connections (SpecPar)
VARIABLES tasks, arrivals, replies, now
parVars == <<tasks, arrivals, replies, now>>

\* a reply handed from worker to worker (SpecChain)
VARIABLES hops, count, holders, callRes
hopVars == <<hops, count, holders, callRes>>

\* the end of call() on a reply of any status (SpecExc)
VARIABLES xcode, xresult, xraised
excVars == <<xcode, xresult, xraised>>

\* a value through a codec and back (SpecCodec)
VARIABLES cval, cjson, cmsgpack
codecVars == <<cval, cjson, cmsgpack>>

\* one call of a convenience function, through a connected client and in
\* loopback mode (SpecApi)
VARIABLES
    acall,      \* the call: [tag, x, n, named, gen, codec]
    apc,        \* the remote call: "idle", "sent", "replied", "done"
    awire,      \* the payload of the request, as the worker decodes it
    aseen,      \* the arguments the handler of the worker was invoked with
    astatus,    \* the status of the response, 0 before there is one
    areply,     \* the body of the response, as the client decodes it
    aout,       \* how the remote call ended: [raised, items]
    lpc,        \* the loopback call: "idle", "done"
    lseen,      \* the arguments the handler was invoked with in loopback
    lout        \* how the loopback call ended: [raised, items]
apiVars == <<acall, apc, awire, aseen, astatus, areply, aout, lpc, lseen, lout>>

\* the connection attempts of call() (SpecCall)
VARIABLES
    kclient,    \* the client: [url, is_client]
    kreq,       \* the call: [fn, retries]
    kpc,        \* "idle", "loop", "connect", "done"
    kattempt,   \* attempt of the loop of call()
    kattempts,  \* how each _url_connect of this call has ended
    kconnects,  \* how many times connect() has been invoked
    klaunched,  \* how many worker processes have been launched
    kup,        \* the workers: [listening, starting]
    kconn,      \* the connect() in progress: [tried, auto]
    kout        \* how the call ended
kVars == <<kclient, kreq, kpc, kattempt, kattempts, kconnects, klaunched, kup,
           kconn, kout>>

\* one cut of the chunk cutter (SpecCutter)
VARIABLES
    qbuffer,    \* the buffer that _http11_chunk is given
    qrev,       \* the module whose RPCKitten is in use
    qcut        \* what _http11_chunk returned: [done, found, chunk, rest]
cutVars == <<qbuffer, qrev, qcut>>

\* one run of _http11 with its two timers (SpecRead)
VARIABLES
    hrole,      \* who runs _http11: "worker" (_serve_http reads a request)
                \* or "client" (call() reads the reply)
    hsent,      \* the message of the peer: [eol, body, bytes]
    hpeer,      \* the bytes of it that the peer has not written yet
    hinflight,  \* bytes written by the peer, not yet in the StreamReader
    hfed,       \* bytes in the buffer of the StreamReader
    hrequest,   \* request: the bytes that _http11 has read
    hnow,       \* the clock of the event loop, in seconds since the call
    hto1,       \* the timer to1: "armed", "cancelled" or "fired"
    hto2,       \* the timer to2
    hclosedBy,  \* who closed the writer: "none", "to1", "to2", "serve"
    hpc,        \* "recv", "returned", "raised", "served"
    hbody,      \* the body that _http11 returned
    hfires      \* history: the runs of _closer
headVars == <<hrole, hsent, hpeer, hinflight, hfed, hrequest, hnow, hto1, hto2,
              hclosedBy, hpc, hbody, hfires>>

\* the calls of one client, one after the other (SpecConn)
VARIABLES
    ucfg,       \* config: [use_tcp]
    ulisten,    \* the listeners of the worker: [unix, tcp]
    upeer,      \* self._peeraddr: "none", "unix" or "tcp"
    ureq,       \* the call: [fn, retries, allow]
    upc,        \* "idle", "loop", "connect", "sent"
    uattempt,   \* attempt of the loop of call()
    uconn,      \* the connect() in progress: [tried, auto]
    ulegs,      \* history: the connections that _url_connect has tried
                \* for this call and for the pings of its connect()
    uwritten,   \* history: the connections the request was written to
    uconnects,  \* how many times this call has invoked connect()
    uhist,      \* history: [opened, unix, n]: the client has opened a
                \* connection since it was made or ran ping(), a call has
                \* succeeded on the local-domain socket, the calls made
    uout        \* how the call ended
connVars == <<ucfg, ulisten, upeer, ureq, upc, uattempt, uconn, ulegs, uwritten,
              uconnects, uhist, uout>>

\* the end of one worker (SpecQuit)
VARIABLES
    zhook,      \* the shutdown() of the subclass awaits something
    zreq,       \* zreq[r]: where the quitquitquit request r is: "none",
                \* "ready", "hook", "scheduled"
    zahead,     \* the requests whose tasks are ahead of the first
                \* _real_shutdown in the queue of the event loop
    zpending,   \* the _real_shutdown callbacks in the queue
    zhooks,     \* history: how many times shutdown() has been called
    zproc       \* the process: "serving", "exited"
quitVars == <<zhook, zreq, zahead, zpending, zhooks, zproc>>

\* SpecListen: a worker that starts, its listeners and url-file, and clients
VARIABLES
    ncfg,       \* the configuration: worker_use_tcp, worker_use_unixdomain
    npc,        \* where _process_run stands
    ntcp,       \* the TCP socket is bound and listens
    nunix,      \* the local-domain listener exists
    nurl,       \* the url-file: "none", "empty", or the host it names
    ncli        \* each client: "idle", "read", "tcp", "unix", "failed"
lisVars == <<ncfg, npc, ntcp, nunix, nurl, ncli>>

\* SpecConfig: one call of Configuration.configure and the calls inside it
VARIABLES
    gfiles,     \* the lines of the default configuration file and of another
    gstack,     \* the calls of configure that have not returned, outermost first
    gset,       \* the attributes that hold a value
    gout        \* "running", "returned", or the exception that came out
cfgVars == <<gfiles, gstack, gset, gout>>

lateVars == <<cutVars, headVars, connVars, quitVars, lisVars, cfgVars>>

moreVars == <<codecVars, apiVars, kVars, lateVars>>

notLate == <<cliVars, reqVars, genVars, srvVars, lookVars, lifeVars, parVars,
             hopVars, excVars, codecVars, apiVars, kVars>>

extVars == <<lookVars, lifeVars, parVars, hopVars, excVars, moreVars>>

vars == <<cliVars, reqVars, genVars, srvVars, extVars>>

\* no lookup is being followed
IdleLookup ==
    /\ registry = {}
    /\ gens = {}
    /\ lpath = <<>>
    /\ lauthed = FALSE
    /\ lfound = [done |-> FALSE, ok |-> FALSE, handler |-> <<>>, invoked |-> <<>>]

\* connect() is called this many times in a row
MaxConnects == 2

Workers == 1..MaxConnects

NoFile == [exists |-> FALSE, mode |-> {}, content |-> 0, ino |-> 0]

NoSock == [exists |-> FALSE, mode |-> {}, owner |-> 0]

\* no worker process is being followed
IdleLife ==
    /\ umask = {}
    /\ urlfile = NoFile
    /\ sockfile = NoSock
    /\ wk = [w \in Workers |-> [pc |-> "none", log |-> <<>>, fd |-> 0]]
    /\ fresh = FALSE
    /\ conn = [k |-> 0, tried |-> 0, auto |-> FALSE, pc |-> "done", proc |-> 0]
    /\ pings = <<>>
    /\ exposed = FALSE

MaxConns == 3       \* connections of SpecPar
MaxDelay == 2       \* longest sleep of a handler of SpecPar
Conns == 1..MaxConns

NoTask == [pc |-> "none", at |-> 0, delay |-> 0, due |-> 0]

IdlePar ==
    /\ tasks = [c \in Conns |-> NoTask]
    /\ arrivals = <<>>
    /\ replies = <<>>
    /\ now = 0

MaxHops == 3        \* longest chain of delegations of SpecChain
Hops == 1..MaxHops

NoHop == [pc |-> "none", sent |-> 0]

IdleChain ==
    /\ hops = [d \in Hops |-> NoHop]
    /\ count = 0
    /\ holders = {}
    /\ callRes = [d \in Hops |-> <<>>]

IdleExc == xcode = 0 /\ xresult = [t |-> "none", n |-> 0, b |-> <<>>] /\ xraised = "none"

\* no value is being encoded
IdleCodec == cval = <<>> /\ cjson = <<>> /\ cmsgpack = <<>>

\* no convenience function is being called
IdleApi ==
    /\ acall = <<>>
    /\ apc = "idle"
    /\ awire = <<>>
    /\ aseen = <<>>
    /\ astatus = 0
    /\ areply = <<>>
    /\ aout = <<>>
    /\ lpc = "idle"
    /\ lseen = <<>>
    /\ lout = <<>>

\* no call is connecting
IdleCall ==
    /\ kclient = <<>>
    /\ kreq = <<>>
    /\ kpc = "idle"
    /\ kattempt = 0
    /\ kattempts = <<>>
    /\ kconnects = 0
    /\ klaunched = 0
    /\ kup = <<>>
    /\ kconn = <<>>
    /\ kout = "none"

\* no buffer is being cut
IdleCut == qbuffer = <<>> /\ qrev = "none" /\ qcut = <<>>

\* _http11 is not being followed
IdleHead ==
    /\ hrole = "none"
    /\ hsent = <<>>
    /\ hpeer = <<>>
    /\ hinflight = <<>>
    /\ hfed = <<>>
    /\ hrequest = <<>>
    /\ hnow = 0
    /\ hto1 = "none"
    /\ hto2 = "none"
    /\ hclosedBy = "none"
    /\ hpc = "idle"
    /\ hbody = <<>>
    /\ hfires = <<>>

\* no client is being followed
IdleConn ==
    /\ ucfg = <<>>
    /\ ulisten = <<>>
    /\ upeer = "none"
    /\ ureq = <<>>
    /\ upc = "idle"
    /\ uattempt = 0
    /\ uconn = <<>>
    /\ ulegs = <<>>
    /\ uwritten = <<>>
    /\ uconnects = 0
    /\ uhist = <<>>
    /\ uout = "none"

\* no worker is being stopped
IdleQuit ==
    /\ zhook = FALSE
    /\ zreq = <<>>
    /\ zahead = {}
    /\ zpending = 0
    /\ zhooks = 0
    /\ zproc = "none"

IdleListen ==
    /\ ncfg = <<>>
    /\ npc = "none"
    /\ ntcp = FALSE
    /\ nunix = FALSE
    /\ nurl = "none"
    /\ ncli = <<>>

IdleConfig ==
    /\ gfiles = <<>>
    /\ gstack = <<>>
    /\ gset = {}
    /\ gout = "none"

IdleLate == IdleCut /\ IdleHead /\ IdleConn /\ IdleQuit /\ IdleListen /\ IdleConfig

IdleMore == IdleCodec /\ IdleApi /\ IdleCall /\ IdleLate

IdleExt == IdleLookup /\ IdleLife /\ IdlePar /\ IdleChain /\ IdleExc /\ IdleMore

\* a client that has made no call
IdleClient ==
    /\ cpc = "idle"
    /\ inflight = <<>>
    /\ eof = FALSE
    /\ buffer = <<>>
    /\ ctype = ""
    /\ readerOpen = TRUE
    /\ finished = FALSE
    /\ yielded = <<>>
    /\ outcome = "none"
    /\ chunks = <<>>
    /\ peerGone = FALSE

\* no call has been made
NoCall == [fn |-> "", args |-> <<>>, replyTo |-> -1, prefix |-> FALSE,
           secret |-> FALSE, unix |-> FALSE]

\* a worker that serves no request
IdleWorker ==
    /\ cfgUrlPath = FALSE
    /\ callp = NoCall
    /\ reqInflight = <<>>
    /\ wireFds = <<>>
    /\ replyFds = [w \in {"orig", "redir"} |-> <<>>]
    /\ fdsSent = <<>>
    /\ sbuf = <<>>
    /\ sfds = [any |-> TRUE, list |-> <<>>]
    /\ lwriter = "orig"
    /\ handler = <<>>
    /\ hkwargs = FALSE
    /\ invoked = <<>>
    /\ hargs = <<>>
    /\ events = <<>>
    /\ spc = "idle"
    /\ authed = FALSE
    /\ sent = 0
    /\ rwriter = "orig"
    /\ out = [w \in {"orig", "redir"} |-> <<>>]
    /\ wclosed = [w \in {"orig", "redir"} |-> FALSE]
    /\ dropped = <<>>
    /\ writes = <<>>
    /\ logs = 0
    /\ first = TRUE
    /\ encRaw = FALSE
    /\ respMime = "application/json"
    /\ emitted = <<>>
    /\ hstate = "none"

ReadMax == 8192

Min(a, b) == IF a < b THEN a ELSE b

(***************************************************************************)
(* The chunk decoder, decoded_chunk_generator: one action per iteration    *)
(* of its loop.  The reply of the model carries no descriptors (rfds is    *)
(* empty), so the generator starts with the loop.                          *)
(***************************************************************************)
\* decode, chosen from the reply's Content-Type by _chunk_decoder
Decode(ct, chunk) ==
    IF ct = "application/json" THEN from_json(chunk)
    ELSE [ok |-> TRUE, val |-> BytesV(chunk)]

\* finished left as it was after an item has been yielded
FinishedKept(f) == f

\* the value of finished after an item has been yielded
FinishedAfterYield(f) == FALSE

\* _http11_chunk returned a chunk: the terminator sets finished, an item is
\* decoded and yielded.
DecodeCut ==
    /\ UNCHANGED extVars
    /\ cpc = "iter"
    /\ LET c == Http11Chunk(buffer) IN
       /\ c.found
       /\ buffer' = c.rest
       /\ IF c.chunk = <<>>
          THEN /\ finished' = TRUE
               /\ chunks' = Append(chunks, "zero")
               /\ UNCHANGED <<yielded, cpc, outcome>>
          ELSE LET d == Decode(ctype, c.chunk) IN
               IF d.ok
               THEN /\ yielded' = Append(yielded, d.val)
                    /\ finished' = FinishedAfterYield(finished)
                    /\ chunks' = Append(chunks, "item")
                    /\ UNCHANGED <<cpc, outcome>>
               ELSE /\ cpc' = "done"
                    /\ outcome' = "DecodeError"
                    /\ UNCHANGED <<yielded, finished, chunks>>
    /\ UNCHANGED <<inflight, eof, ctype, readerOpen, peerGone, reqVars, genVars>>
    /\ UNCHANGED srvVars

\* no whole chunk in the buffer and the reader is open: reader.read(8192)
\* returns the bytes that have arrived, or b'' at end-of-input.
DecodeRead ==
    /\ UNCHANGED extVars
    /\ cpc = "iter"
    /\ ~Http11Chunk(buffer).found
    /\ readerOpen
    /\ \/ \E k \in 1..Min(Len(inflight), ReadMax) :
            /\ buffer' = buffer \o Take(inflight, k)
            /\ inflight' = Drop(inflight, k)
            /\ UNCHANGED readerOpen
       \/ /\ inflight = <<>>
          /\ eof
          /\ readerOpen' = FALSE
          /\ UNCHANGED <<buffer, inflight>>
    /\ UNCHANGED <<cpc, eof, ctype, finished, yielded, outcome, chunks,
                   peerGone, reqVars, genVars>>
    /\ UNCHANGED srvVars

\* no whole chunk and the reader is gone: leave the loop, and raise
\* IOError('Incomplete result, missing end-of-stream marker') unless
\* finished.
DecodeEnd ==
    /\ UNCHANGED extVars
    /\ cpc = "iter"
    /\ ~Http11Chunk(buffer).found
    /\ ~readerOpen
    /\ cpc' = "done"
    /\ outcome' = IF finished THEN "end" ELSE "IncompleteStream"
    /\ UNCHANGED <<inflight, eof, buffer, ctype, readerOpen, finished,
                   yielded, chunks, peerGone, reqVars, genVars>>
    /\ UNCHANGED srvVars

(***************************************************************************)
(* SpecDecoder: the decoder on an arbitrary reply stream, a concatenation  *)
(* of at most MaxFrags fragments, received in reads of any sizes.          *)
(***************************************************************************)
Fragments ==
    { ZeroChunk,
      ChunkBytes(to_json(IntV(7))),
      ChunkBytes(<<"x">>),
      <<"2", CR, LF, "7">>,
      <<"z">> }

RECURSIVE Streams(_)
Streams(n) ==
    IF n = 0 THEN { <<>> }
    ELSE LET shorter == Streams(n - 1) IN
         shorter \cup { s \o f : s \in shorter, f \in Fragments }

InitDecoder ==
    /\ IdleExt
    /\ cpc = "iter"
    /\ inflight \in Streams(MaxFrags)
    /\ eof = TRUE
    /\ buffer = <<>>
    /\ ctype \in {"application/json", "application/octet-stream"}
    /\ readerOpen = TRUE
    /\ finished = FALSE
    /\ yielded = <<>>
    /\ outcome = "none"
    /\ chunks = <<>>
    /\ peerGone = FALSE
    /\ IdleWorker

NextDecoder == DecodeCut \/ DecodeRead \/ DecodeEnd

SpecDecoder == InitDecoder /\ [][NextDecoder]_vars

(***************************************************************************)
(* RequestInfo.write and the writers.  A write joins its parts and hands   *)
(* them to the writer; a closed stream writer discards what it is given.   *)
(* Bytes accepted by the "orig" writer travel to the client.               *)
(***************************************************************************)
WriteTo(w, data, kinds) ==
    /\ IF wclosed[w]
       THEN /\ dropped' = dropped \o data
            /\ UNCHANGED <<out, inflight>>
       ELSE /\ out' = [out EXCEPT ![w] = @ \o data]
            /\ inflight' = IF w = "orig" THEN inflight \o data ELSE inflight
            /\ UNCHANGED dropped
    /\ sent' = sent + Len(data)
    /\ writes' = writes \o kinds

NoWrite == UNCHANGED <<out, inflight, dropped, sent, writes>>

(***************************************************************************)
(* The streaming wrapper: raw_method of _wrap_async_generator, run by      *)
(* draining_raw_method of _wrap_drain_and_close as a background task.      *)
(* The handler is any generator over the values below; what it does next   *)
(* is chosen step by step.  Server-sent events and values that the JSON    *)
(* encoder turns into base64 are outside the handlers of the model.        *)
(***************************************************************************)
ItemInts == {7, 12}
RawData == { <<"a">>, <<>> }
Mimetypes == <<"application/octet-stream">>

\* {'finished': 404, 'error': ...}, the record a handler yields first to
\* report an error with a status
FinishedV == [t |-> "finished", n |-> 404, b |-> <<>>]

\* what the handler may yield next
Yields(isFirst, raw) ==
    { HttpResultV(1, b) : b \in RawData }
      \cup (IF raw THEN { BytesV(b) : b \in RawData }
                   ELSE { IntV(n) : n \in ItemInts })
      \cup (IF isFirst THEN {FinishedV} ELSE {})

\* what the handler may raise
ExcKinds == {"Exception", "IOError", "NeedInfo", "Redirect"}

\* enc(resp) for an item: the request's encoder, or the data untouched
\* once a raw mimetype has been set
Enc(raw, v) == IF raw THEN v.b ELSE to_json(v)

\* int(e.http_code) looked up in _HTTP_RESPONSE, 500 when the exception
\* has no http_code
ExcHttpCode(e, code) ==
    CASE e = "NeedInfo" -> 423
      [] e = "Finished" /\ code \in KnownCodes -> code
      [] OTHER -> 500

\* the error record of raw_method's handler for an exception
ExcData(e, isAuthed) ==
    IF e = "NeedInfo" THEN ErrV(2) ELSE IF isAuthed THEN ErrV(1) ELSE ErrV(0)

\* the 500 response of draining_raw_method, written when raw_method itself
\* raises: request_obj.write of a record that the pass-through encoder
\* left unencoded is a TypeError
Wrapper500(isAuthed) ==
    HTTP_RESPONSE(500) \o HTTP_MIMETYPE("application/json")
        \o to_json(IF isAuthed THEN ErrV(1) ELSE ErrV(0))

\* the error chunk followed by the empty chunk of a completed stream
ExcWriteTerminated(e, code, isFirst, raw, mime, isAuthed) ==
    [data |-> ChunkBytes(to_json(ExcData(e, isAuthed))) \o ZeroChunk,
     kind |-> "errchunk"]

\* what is written for an exception other than IOError: [data, kind]
ExcWrite(e, code, isFirst, raw, mime, isAuthed) ==
    IF raw THEN [data |-> Wrapper500(isAuthed), kind |-> "errresp"]
    ELSE IF isFirst
    THEN [data |-> HTTP_RESPONSE(ExcHttpCode(e, code)) \o HTTP_MIMETYPE(mime)
                      \o to_json(ExcData(e, isAuthed)),
          kind |-> "errresp"]
    ELSE [data |-> ChunkBytes(to_json(ExcData(e, isAuthed))), kind |-> "errchunk"]

\* no terminator written
NoTerminator == <<>>

\* what is written when the handler's generator is exhausted
Terminator == ZeroChunk

\* the response head of a stream, written with the first item unless
\* request_obj.sent says that bytes have been sent before
StreamHead(isFirst, sentBefore, mime) ==
    IF isFirst /\ sentBefore = 0
    THEN [data |-> HTTP_200_CHUNKED_OK(mime), kinds |-> <<"head">>]
    ELSE [data |-> <<>>, kinds |-> <<>>]

\* raw_method is over: draining_raw_method drains, logs the request and
\* sleeps before it closes the writer
EndOfRawMethod(how) ==
    /\ hstate' = how
    /\ logs' = logs + 1
    /\ spc' = "sleep"

\* the handler yields r, a value or an HttpResult, and the item is sent
StreamYield ==
    /\ UNCHANGED extVars
    /\ spc = "stream"
    /\ ~hkwargs
    /\ Len(emitted) < MaxItems
    /\ \E r \in Yields(first, encRaw) :
         /\ r.t # "finished"
         /\ (r.t = "httpresult" => first)
         /\ emitted' = Append(emitted, r)
         /\ LET isHR == r.t = "httpresult"
                raw == encRaw \/ isHR
                mime == IF isHR THEN Mimetypes[r.n] ELSE respMime
                resp == IF isHR THEN BytesV(r.b) ELSE r
                head == StreamHead(first, sent, mime)
            IN  /\ encRaw' = raw
                /\ respMime' = mime
                /\ WriteTo(rwriter, head.data \o ChunkBytes(Enc(raw, resp)),
                           head.kinds \o <<"item">>)
         \* await request_obj.writer.drain() raises once the peer is gone
         /\ \/ /\ first' = FALSE
               /\ UNCHANGED <<hstate, logs, spc>>
            \/ /\ peerGone
               /\ rwriter = "orig"
               /\ EndOfRawMethod("brokenpipe")
               /\ UNCHANGED first
    /\ UNCHANGED <<cpc, eof, buffer, ctype, readerOpen, finished, yielded,
                   outcome, chunks, peerGone, authed, rwriter, wclosed>>
    /\ UNCHANGED srvVars

\* the handler yields None: raw_method returns at once
StreamReturn ==
    /\ UNCHANGED extVars
    /\ spc = "stream"
    /\ ~hkwargs
    /\ Len(emitted) < MaxItems
    /\ emitted' = Append(emitted, NoneV)
    /\ NoWrite
    /\ EndOfRawMethod("returned")
    /\ UNCHANGED <<cpc, eof, buffer, ctype, readerOpen, finished, yielded,
                   outcome, chunks, peerGone, authed, rwriter, wclosed,
                   first, encRaw, respMime>>
    /\ UNCHANGED srvVars

\* the generator is exhausted: the empty chunk that delimits a completed
\* stream is sent
StreamEnd ==
    /\ UNCHANGED extVars
    /\ spc = "stream"
    /\ ~hkwargs
    /\ WriteTo(rwriter, Terminator, <<"zero">>)
    /\ EndOfRawMethod("exhausted")
    /\ UNCHANGED <<cpc, eof, buffer, ctype, readerOpen, finished, yielded,
                   outcome, chunks, peerGone, authed, rwriter, wclosed,
                   first, encRaw, respMime, emitted>>
    /\ UNCHANGED srvVars

\* an exception in the loop: raised by the handler or by the call of the
\* handler, or by raw_method for an HttpResult that is not the first item
\* or for a first item that is a 'finished' record
StreamRaise ==
    /\ UNCHANGED extVars
    /\ spc = "stream"
    /\ \E e \in ExcKinds \cup {"Finished", "NotFirst"} :
         \* api_method(request_obj, *args, **kwargs) with a keyword that
         \* the handler does not take is a TypeError
         /\ hkwargs => e = "Exception"
         /\ e = "Finished" => first /\ Len(emitted) < MaxItems
         /\ e = "NotFirst" => ~first /\ Len(emitted) < MaxItems
         /\ emitted' = CASE e = "Finished" -> Append(emitted, FinishedV)
                         [] e = "NotFirst" -> Append(emitted, HttpResultV(1, <<"a">>))
                         [] OTHER -> emitted
         /\ IF e = "IOError"
            THEN NoWrite
            ELSE LET w == ExcWrite(e, FinishedV.n, first, encRaw, respMime, authed)
                 IN  WriteTo(rwriter, w.data, <<w.kind>>)
         /\ EndOfRawMethod(IF e = "IOError" THEN "threwIO"
                           ELSE IF e \in ExcKinds THEN "threw"
                           ELSE "rejected")
         /\ events' = Append(events, e)
    /\ UNCHANGED <<cpc, eof, buffer, ctype, readerOpen, finished, yielded,
                   outcome, chunks, peerGone, authed, rwriter, wclosed,
                   first, encRaw, respMime>>
    /\ UNCHANGED <<cfgUrlPath, callp, reqInflight, wireFds, replyFds, fdsSent,
                   sbuf, sfds, lwriter, handler, hkwargs, invoked, hargs>>

\* after the sleep, the writer of the response is closed
StreamClose ==
    /\ UNCHANGED extVars
    /\ spc = "sleep"
    /\ spc' = "closed"
    /\ wclosed' = [wclosed EXCEPT ![rwriter] = TRUE]
    /\ eof' = IF rwriter = "orig" THEN TRUE ELSE eof
    /\ UNCHANGED <<cpc, inflight, buffer, ctype, readerOpen, finished, yielded,
                   outcome, chunks, peerGone, authed, sent, rwriter, out,
                   dropped, writes, logs, genVars>>
    /\ UNCHANGED srvVars

(***************************************************************************)
(* call(): receiving the reply.  One action per read of _http11's loop;    *)
(* the read that completes the header block also runs the rest of call().  *)
(* Replies of the model carry no Content-Length and stay far below         *)
(* want_bytes and the size limit, so the loop ends with the header block.  *)
(***************************************************************************)
\* _get_exception(resp_code, result), by the name of the exception class;
\* result is a mapping here
GetException(code, result) ==
    IF (result.t = "err" /\ result.n = 2) \/ code = 423
    THEN \* NeedInfoException(result['error'], ...): a mapping without
         \* 'error' is a KeyError
         IF result.t = "err" THEN "NeedInfo" ELSE "KeyError"
    ELSE IF code \in {401, 403, 407} THEN "PermissionError"
    ELSE IF code = 404 THEN "KeyError"
    ELSE IF 300 <= code /\ code < 400 THEN "IOError"
    ELSE IF 400 <= code /\ code < 500 THEN "ValueError"
    ELSE "RuntimeError"

\* the empty mapping that result starts as
EmptyDict == [t |-> "dict", n |-> 0, b |-> <<>>]
\* {'error': 'Empty response body'} and the like, made by call() itself
LocalError == [t |-> "err", n |-> 0, b |-> <<"local">>]

\* isinstance(result, dict): a mapping from a JSON body, or the HttpResult
\* made of a body of another mimetype
IsDict(v) == v.t \in {"dict", "err", "bytes"}
HasError(v) == v.t = "err"

\* raise self._get_exception(resp_code, result): AttributeError when the
\* result is no mapping (result.get fails)
CallRaise(code, result) ==
    IF IsDict(result)
    THEN [to |-> "done", outcome |-> GetException(code, result), value |-> result]
    ELSE [to |-> "done", outcome |-> "AttributeError", value |-> result]

\* an end of call() that returns whatever a 2xx reply holds
CallReturnAny(code, chunked, result) ==
    IF 200 <= code /\ code < 300
    THEN IF chunked
         THEN [to |-> "iter", outcome |-> "none", value |-> result]
         ELSE [to |-> "done", outcome |-> "value", value |-> result]
    ELSE CallRaise(code, result)

\* the end of call(): the chunk decoder, the result, or the exception
CallReturn(code, chunked, result) ==
    IF 200 <= code /\ code < 300
    THEN IF ~HasError(result)
         THEN IF chunked
              THEN [to |-> "iter", outcome |-> "none", value |-> result]
              ELSE [to |-> "done", outcome |-> "value", value |-> result]
         ELSE CallRaise(500, result)
    ELSE CallRaise(code, result)

\* [_fd_from_magic_arg(a, rfds) for a in result] at the end of the try
\* block; failed: an exception inside the try block made result an error
CallFds(res0, failed, rfds) ==
    IF failed \/ (rfds # <<>> /\ res0.t # "list" /\ ~IsDict(res0))
    THEN LocalError
    ELSE IF rfds # <<>> /\ res0.t = "list" /\ res0.b[1] = MAGIC_FD
    THEN FdListV(Head(rfds))
    ELSE res0

\* the body of the reply by its mimetype
CallBody(ct, body) ==
    IF ct = "application/json" THEN from_json(body)
    ELSE [ok |-> TRUE, val |-> BytesV(body)]

\* result and resp_code of the try block of call()
CallDecoded(st, chunked, ct, dec, body, rfds) ==
    CallReturn(IF st.ok THEN st.code ELSE 500,
               chunked,
               CallFds(IF body # <<>> /\ ~chunked THEN dec.val ELSE EmptyDict,
                       \/ ~st.ok
                       \/ (body # <<>> /\ ~chunked /\ (ct = "" \/ ~dec.ok)),
                       rfds))

\* the end of call() for a reply whose head has been read: [to, outcome,
\* value]: to = "iter" returns the chunk decoder, to = "done" returns the
\* value or raises the exception named by outcome
CallResult(hlines, body, rfds) ==
    CallDecoded(StatusOf(hlines[1]),
                HeaderGet(hlines, "Transfer-Encoding") = "chunked",
                HeaderGet(hlines, "Content-Type"),
                CallBody(HeaderGet(hlines, "Content-Type"), body),
                body, rfds)

\* call() once _http11 has returned the head h of the reply, with r the
\* result of the call
CallFinish(h, r) ==
    /\ cpc' = r.to
    /\ outcome' = r.outcome
    /\ buffer' = h.body
    /\ ctype' = HeaderGet(h.hlines, "Content-Type")
    /\ yielded' = IF r.outcome = "value" THEN <<r.value>> ELSE yielded

\* one read of _http11's loop, after which the bytes received are request
\* and h is what the loop finds in them
CallRead(request, h) ==
    IF ~h.found
    THEN /\ buffer' = request
         /\ UNCHANGED <<cpc, ctype, outcome, yielded>>
    ELSE IF ~HeadersOk(h.hlines)
    THEN \* ValueError in _http11: 'Empty response body'
         /\ buffer' = request
         /\ cpc' = "done"
         /\ outcome' = "RuntimeError"
         /\ UNCHANGED <<ctype, yielded>>
    ELSE CallFinish(h, CallResult(h.hlines, h.body,
                                  IF callp.unix THEN replyFds["orig"] ELSE <<>>))

CallRecv ==
    /\ UNCHANGED extVars
    /\ cpc = "recv"
    /\ \/ \E k \in 1..Min(Len(inflight), ReadMax) :
            /\ inflight' = Drop(inflight, k)
            /\ CallRead(buffer \o Take(inflight, k),
                        ParseHead(buffer \o Take(inflight, k)))
       \/ \* end-of-input before a header block: 'Header not found'
          /\ inflight = <<>>
          /\ eof
          /\ cpc' = "done"
          /\ outcome' = "RuntimeError"
          /\ UNCHANGED <<inflight, buffer, ctype, yielded>>
    /\ UNCHANGED <<eof, readerOpen, finished, chunks, peerGone, reqVars, genVars>>
    /\ UNCHANGED srvVars

\* the caller goes away before the reply is complete
ClientAbort ==
    /\ UNCHANGED extVars
    /\ cpc \in {"recv", "iter"}
    /\ ~eof
    /\ cpc' = "done"
    /\ outcome' = "aborted"
    /\ peerGone' = TRUE
    /\ UNCHANGED <<inflight, eof, buffer, ctype, readerOpen, finished, yielded,
                   chunks, reqVars, genVars>>
    /\ UNCHANGED srvVars

(***************************************************************************)
(* SpecStream: one call of a streaming handler.  The request has been      *)
(* dispatched; the wrapper runs the handler and the client reads the       *)
(* reply from its connection, in reads of any sizes.                       *)
(***************************************************************************)
InitStream ==
    /\ IdleExt
    /\ cpc = "recv"
    /\ inflight = <<>>
    /\ eof = FALSE
    /\ buffer = <<>>
    /\ ctype = ""
    /\ readerOpen = TRUE
    /\ finished = FALSE
    /\ yielded = <<>>
    /\ outcome = "none"
    /\ chunks = <<>>
    /\ peerGone = FALSE
    /\ spc = "stream"
    /\ authed \in BOOLEAN
    /\ sent = 0
    /\ rwriter = "orig"
    /\ out = [w \in {"orig", "redir"} |-> <<>>]
    /\ wclosed = [w \in {"orig", "redir"} |-> FALSE]
    /\ dropped = <<>>
    /\ writes = <<>>
    /\ logs = 0
    /\ first = TRUE
    /\ encRaw = FALSE
    /\ respMime = "application/json"
    /\ emitted = <<>>
    /\ hstate = "running"
    /\ cfgUrlPath = FALSE
    /\ callp = NoCall
    /\ reqInflight = <<>>
    /\ wireFds = <<>>
    /\ replyFds = [w \in {"orig", "redir"} |-> <<>>]
    /\ fdsSent = <<>>
    /\ sbuf = <<>>
    /\ sfds = [any |-> FALSE, list |-> <<>>]
    /\ lwriter = "none"
    /\ handler = <<"api", "gen">>
    /\ hkwargs = FALSE
    /\ invoked = <<"api", "gen">>
    /\ hargs = <<>>
    /\ events = <<>>

NextStream ==
    \/ StreamYield \/ StreamReturn \/ StreamEnd \/ StreamRaise \/ StreamClose
    \/ CallRecv \/ DecodeCut \/ DecodeRead \/ DecodeEnd
    \/ ClientAbort

SpecStream == InitStream /\ [][NextStream]_vars

(***************************************************************************)
(* The worker's side of a call: _serve_http and _handle_http_request.      *)
(* The worker of the model has these handlers, none of them annotated:     *)
(*   api_priv(request_info, *args)     private, returns a value            *)
(*   public_api_pub(request_info)      public, returns a value             *)
(*   api_both and public_api_both      one name, a handler of each kind    *)
(*   api_gen(request_info, *args)      private, an async generator         *)
(*   public_raw_ping                   the ping of RPCKitten itself        *)
(***************************************************************************)
Registry ==
    { <<"api", "priv">>, <<"public_api", "pub">>, <<"api", "both">>,
      <<"public_api", "both">>, <<"api", "gen">>, <<"public_raw", "ping">> }

\* inspect.isasyncgenfunction(api_method)
IsGenerator(h) == h = <<"api", "gen">>

\* getattr(self, kind + '_' + name, None) of a worker whose handlers are
\* reg: <<>> stands for None
GetAttrIn(reg, kind, name) == IF <<kind, name>> \in reg THEN <<kind, name>> ELSE <<>>

GetAttr(kind, name) == GetAttrIn(Registry, kind, name)

\* the private handlers stay out of reach whatever request_obj.authed says
PrivateForAll(isAuthed) == TRUE

\* get_api_methods looks for raw_ and api_ handlers only if request_obj.authed
PrivateVisible(isAuthed) == isAuthed

\* get_method_name: the first component of the path, or web_root
MethodName(path) ==
    IF Len(path) >= 2 /\ path[2] # "/" THEN path[2] ELSE "web_root"

\* get_api_methods: [ok, api, raw]; ok = FALSE is the exception that
\* get_default_methods raises
GetApiMethodsIn(reg, path, isAuthed) ==
    LET name == MethodName(path)
        raw1 == IF PrivateVisible(isAuthed) THEN GetAttrIn(reg, "raw", name) ELSE <<>>
        api1 == IF PrivateVisible(isAuthed) THEN GetAttrIn(reg, "api", name) ELSE <<>>
        none1 == raw1 = <<>> /\ api1 = <<>>
        raw2 == IF none1 THEN GetAttrIn(reg, "public_raw", name) ELSE raw1
        api2 == IF none1 THEN GetAttrIn(reg, "public_api", name) ELSE api1
    IN  [ok |-> ~(raw2 = <<>> /\ api2 = <<>>), api |-> api2, raw |-> raw2]

GetApiMethods(path, isAuthed) == GetApiMethodsIn(Registry, path, isAuthed)

\* request_obj.handler of _handle_http_request: the raw method if there is
\* one, else the api method
ChosenMethod(m) == IF m.raw # <<>> THEN m.raw ELSE m.api

\* validate_request_header(path, head): [ok, path]; ok = FALSE is the
\* PermissionError
ValidateRequestHeader(path, head) ==
    IF ~(\E i \in 1..Len(head) : head[i] = Secret)
    THEN [ok |-> FALSE, path |-> path]
    ELSE IF IsPrefixAt(<<"/", Secret, "/">>, path \o <<"/">>, 1)
    THEN [ok |-> TRUE, path |-> Drop(path, 2)]
    ELSE [ok |-> TRUE, path |-> path]

\* what an except branch of _serve_http writes: the status and the rest
ErrorResponse(code, rest) ==
    [kind |-> "error", code |-> code, data |-> HTTP_RESPONSE(code) \o rest,
     authed |-> FALSE, handler |-> <<>>, args |-> <<>>, replyTo |-> -1,
     kw |-> FALSE]

\* the branch for exceptions that have no branch of their own
Error500 == ErrorResponse(500, HTTP_JSON \o to_json(ErrV(1)))

\* the branch for TypeError and UnicodeDecodeError
Error400 == ErrorResponse(400, HTTP_JSON \o to_json(ErrV(0)))

\* a byte that is no UTF-8 text
BadByte == "xFF"

\* str(body, 'utf-8') does not raise UnicodeDecodeError
IsUtf8(body) == \A i \in 1..Len(body) : body[i] # BadByte

\* the handler is about to be called with these arguments
Ready(isAuthed, h, args, replyTo, extra) ==
    [kind |-> "ready", code |-> 200, data |-> <<>>, authed |-> isAuthed,
     handler |-> h, args |-> args, replyTo |-> replyTo, kw |-> extra]

\* if request_obj.fds: the arguments tr with the descriptors put in place
\* of their placeholders, and the reply_to_first_fd of the request
HandleFds(isAuthed, h, replyTo, tr) ==
    IF ~tr.ok THEN [Error500 EXCEPT !.authed = isAuthed, !.handler = h]
    ELSE IF replyTo < 0 THEN Ready(isAuthed, h, tr.args, -1, FALSE)
    ELSE IF tr.args = <<>> \/ ~HasFileno(tr.args[1])
    THEN [Error500 EXCEPT !.authed = isAuthed, !.handler = h]
    ELSE Ready(isAuthed, h, Tail(tr.args), replyTo, FALSE)

\* _handle_http_request once the body of the POST has been parsed as kw;
\* without descriptors reply_to_first_fd stays among the keyword arguments
HandleParsed(isAuthed, h, kw, fds) ==
    IF ~kw.ok THEN [Error500 EXCEPT !.authed = isAuthed, !.handler = h]
    ELSE IF fds = <<>> THEN Ready(isAuthed, h, kw.args, -1, kw.replyTo >= 0)
    ELSE HandleFds(isAuthed, h, kw.replyTo,
                   FdsFromMagicArgs(kw.args, fds, <<>>))

\* the part of _handle_http_request behind get_api_methods: the body of
\* the POST, the descriptors and the reply_to_first_fd of the request
HandleArgs(isAuthed, h, body, fds) ==
    IF ~IsUtf8(body) THEN [Error400 EXCEPT !.authed = isAuthed, !.handler = h]
    ELSE HandleParsed(isAuthed, h, ParseKwargs(body), fds)

\* _handle_http_request with m the methods that get_api_methods found
DispatchFound(isAuthed, path, m, body, fds) ==
    IF ~m.ok
    THEN IF isAuthed
         THEN [ErrorResponse(404, HTTP_NOT_FOUND) EXCEPT !.authed = TRUE]
         ELSE ErrorResponse(403, HTTP_JSON \o to_json(ErrMsgV(0, path)))
    ELSE HandleArgs(isAuthed, ChosenMethod(m), body, fds)

\* RequestInfo(path=...) and get_api_methods for it
DispatchPath(isAuthed, path, body, fds) ==
    DispatchFound(isAuthed, path, GetApiMethods(path, isAuthed), body, fds)

\* _serve_http after validate_request_header has returned v
DispatchValid(v, body, fds) ==
    DispatchPath(v.ok, IF v.path = <<>> THEN <<"/">> ELSE v.path, body, fds)

\* _serve_http for a request line that splits into words
DispatchWords(urlPathSet, head, words, body, fds) ==
    IF Len(words) < 3 THEN Error500
    ELSE IF urlPathSet /\ ~IsPrefixAt(<<"/", UrlPath>>, words[2], 1)
    THEN ErrorResponse(404, HTTP_NOT_FOUND)
    ELSE DispatchValid(
             ValidateRequestHeader(
                 IF urlPathSet THEN Drop(words[2], 2) ELSE words[2], head),
             body, fds)

\* _serve_http for a request that _http11 has parsed as h
DispatchHead(urlPathSet, request, h, fds) ==
    IF ~HeadersOk(h.hlines) THEN Error500
    ELSE DispatchWords(urlPathSet, Take(request, h.hend),
                       SplitWords(h.hlines[1], <<>>), h.body, fds)

\* _serve_http from the parsed request to the call of the handler
Dispatch(urlPathSet, request, fds) ==
    DispatchHead(urlPathSet, request, ParseHead(request), fds)

(***************************************************************************)
(* call(): connecting and sending the request.                             *)
(***************************************************************************)
ArgLists ==
    { <<>>,
      <<IntV(7)>>,
      <<FdV(1), StrV("a"), FdV(2)>>,
      <<StrV(MAGIC_FD)>>,
      <<StrV(MAGIC_FD), FdV(1)>> }

ReplyOffsets == {0, 5}

\* The calls of the model.  Calls without arguments go to every name, from
\* clients whose URL holds or lacks the URL path and the secret; calls with
\* arguments and calls with call_reply_to come from a client that holds
\* the URL of the worker.  The generator is called with call_reply_to
\* only: SpecStream has the streams that go back to the caller.  One call
\* comes from a local client without the secret, with arguments that the
\* worker fails to decode.
Calls(urlPathSet) ==
    { [fn |-> f, args |-> <<>>, replyTo |-> -1, prefix |-> p, secret |-> k,
       unix |-> FALSE] :
         f \in {"pub", "priv", "both", "ping", "nonexist"},
         p \in BOOLEAN, k \in BOOLEAN }
    \cup
    { [fn |-> "priv", args |-> a, replyTo |-> -1, prefix |-> urlPathSet,
       secret |-> TRUE, unix |-> u] : a \in ArgLists, u \in BOOLEAN }
    \cup
    { [fn |-> f, args |-> a, replyTo |-> n, prefix |-> urlPathSet,
       secret |-> TRUE, unix |-> u] :
         f \in {"priv", "gen"}, a \in {<<>>, <<FdV(1)>>},
         n \in ReplyOffsets, u \in BOOLEAN }
    \cup
    { [fn |-> "pub", args |-> <<StrV(MAGIC_FD), FdV(1)>>, replyTo |-> -1,
       prefix |-> urlPathSet, secret |-> FALSE, unix |-> TRUE] }

\* descriptors are sent wherever the connection goes
FdsOkAlways(unix) == TRUE

\* fds_ok of _url_connect: the connection is a local-domain connection
FdsOk(unix) == unix

\* call(fn, *args, call_reply_to=..., call_allow_unix=...) up to the
\* request's last byte: the ValueError for descriptors without a
\* local-domain connection, or the request written (sendmsg with the
\* descriptors where there are any)
Call ==
    /\ UNCHANGED extVars
    /\ cpc = "idle"
    /\ \E c \in Calls(cfgUrlPath) :
         LET fds == SelectFds(CallArgs(c)) IN
         /\ callp' = c
         /\ IF fds # <<>> /\ ~FdsOk(c.unix)
            THEN /\ cpc' = "done"
                 /\ outcome' = "ValueError"
                 /\ UNCHANGED <<reqInflight, wireFds, fdsSent, spc>>
            ELSE /\ cpc' = "recv"
                 /\ reqInflight' = HttpReq(c)
                 /\ wireFds' = fds
                 /\ fdsSent' = IF fds = <<>> THEN fdsSent
                               ELSE Append(fdsSent, [fds |-> fds, unix |-> c.unix])
                 /\ spc' = "recv"
                 /\ UNCHANGED outcome
    /\ UNCHANGED <<inflight, eof, buffer, ctype, readerOpen, finished, yielded,
                   chunks, peerGone>>
    /\ UNCHANGED <<authed, sent, rwriter, out, wclosed, dropped, writes, logs>>
    /\ UNCHANGED <<genVars, cfgUrlPath, replyFds, sbuf, sfds, lwriter, handler,
                   hkwargs, invoked, hargs, events>>

(***************************************************************************)
(* _serve_http: one action per read of _http11; the read that completes    *)
(* the request runs _serve_http up to the call of the handler.             *)
(***************************************************************************)
RecvBufSize == 65536

\* config.worker_http_request_max_size of the worker of the model, which is
\* configured with a small one
WorkerHttpRequestMaxSize == 64

\* the finally of _serve_http: the local writer is closed, the request is
\* logged
ServeFinally(w) ==
    /\ wclosed' = [wclosed EXCEPT ![w] = TRUE]
    /\ eof' = IF w = "orig" THEN TRUE ELSE eof
    /\ logs' = logs + 1
    /\ spc' = "closed"

\* _serve_http once the request has been read: d is what Dispatch made
\* of it
ServeDispatched(d) ==
    /\ authed' = d.authed
    /\ handler' = d.handler
    /\ hargs' = d.args
    /\ hkwargs' = d.kw
    /\ IF d.kind = "error"
       THEN \* an except branch: _w to the local writer
            /\ WriteTo(lwriter, d.data, <<"errresp">>)
            /\ ServeFinally(lwriter)
            /\ UNCHANGED <<rwriter, lwriter, events>>
       ELSE IF d.replyTo >= 0
       THEN \* the acknowledgement on the connection of the request, which
            \* is then closed; the writer of the request becomes the one
            \* of the descriptor
            /\ out' = [out EXCEPT !["orig"] = @ \o HTTP_202_REPLIED_TO_FIRST_FD]
            /\ inflight' = inflight \o HTTP_202_REPLIED_TO_FIRST_FD
            /\ writes' = Append(writes, "ack")
            /\ wclosed' = [wclosed EXCEPT !["orig"] = TRUE]
            /\ eof' = TRUE
            /\ rwriter' = "redir"
            /\ sent' = d.replyTo
            /\ events' = events \o <<"open", "ack", "close", "swap">>
            /\ spc' = "ready"
            /\ UNCHANGED <<dropped, logs, lwriter>>
       ELSE /\ spc' = "ready"
            /\ UNCHANGED <<sent, rwriter, out, wclosed, dropped, writes, logs,
                           inflight, eof, lwriter, events>>

\* one read of _http11's loop: request is what has been read so far, got
\* the descriptors that came with this read, want the want_bytes after it
ServeRead(request, recvmsg, got, want) ==
    /\ sbuf' = request
    /\ sfds' = [any |-> got # <<>>, list |-> got]
    /\ wireFds' = IF recvmsg THEN <<>> ELSE wireFds
    /\ IF Len(request) > WorkerHttpRequestMaxSize
       THEN \* ValueError: 'Request too large'
            ServeDispatched(Error500)
       ELSE IF want > 0
       THEN UNCHANGED <<spc, authed, sent, rwriter, out, wclosed, dropped,
                        writes, logs, inflight, eof, lwriter, handler,
                        hkwargs, hargs, events>>
       ELSE ServeDispatched(IF want = 0
                            THEN Dispatch(cfgUrlPath, request, got)
                            ELSE Error500)

\* recvmsg is used while fds is true on a local-domain socket: the
\* descriptors come with the first byte
ServeRecv ==
    /\ UNCHANGED extVars
    /\ spc = "recv"
    /\ \E k \in 1..Min(Len(reqInflight), RecvBufSize) :
         /\ reqInflight' = Drop(reqInflight, k)
         /\ ServeRead(sbuf \o Take(reqInflight, k),
                      sfds.any /\ callp.unix,
                      IF sfds.any /\ callp.unix THEN wireFds ELSE <<>>,
                      WantBytes(sbuf \o Take(reqInflight, k)))
    /\ UNCHANGED <<cpc, buffer, ctype, readerOpen, finished, yielded, outcome,
                   chunks, peerGone, genVars, cfgUrlPath, callp, replyFds, fdsSent,
                   invoked>>

(***************************************************************************)
(* The call of the handler.  A generator and a raw handler run as a        *)
(* background task; a handler that returns a value runs to its end, and    *)
(* _serve_http writes the response.                                        *)
(***************************************************************************)
\* how a handler that returns a value may end
UnaryOutcomes ==
    {"value", "httpresult", "fds", "redirect", "needinfo", "permission",
     "exception", "redirect_to"}

\* the descriptor of the file that a handler opens and returns
OpenedFd == 3

\* what the handlers of the model return
ReturnValue(h) == IF h[1] = "public_api" THEN StrV("public") ELSE StrV("private")

\* (code, mimetype, response) that _handle_http_request returns
UnaryReturn(o, h, isAuthed) ==
    CASE o = "value" ->
            [code |-> 200, mt |-> "application/json", resp |-> to_json(ReturnValue(h)),
             kind |-> "resp"]
      [] o = "httpresult" ->
            [code |-> 200, mt |-> "application/octet-stream", resp |-> <<"a">>,
             kind |-> "resp"]
      [] OTHER ->
            [code |-> 500, mt |-> "application/json",
             resp |-> to_json(IF isAuthed THEN ErrV(1) ELSE ErrV(0)),
             kind |-> "errresp"]

\* what the except branches of _serve_http write for the exceptions that
\* _handle_http_request lets through
UnaryRaise(o) ==
    CASE o = "redirect" -> HTTP_RESPONSE(302) \o HTTP_MOVED
      [] o = "needinfo" -> HTTP_RESPONSE(423) \o HTTP_JSON \o to_json(ErrV(2))
      [] OTHER -> HTTP_RESPONSE(403) \o HTTP_JSON \o to_json(ErrV(0))

\* req.via_unix_domain: the peer of the request's connection
ViaUnixDomain(unix) == unix

\* the writer that the except branches of _serve_http write to
ExceptWriter(local, ofRequest) == local

Invoke ==
    /\ UNCHANGED extVars
    /\ spc = "ready"
    /\ IF IsGenerator(handler) \/ handler[1] \in {"raw", "public_raw"}
       THEN \* create_background_task; _serve_http has nothing to send
            /\ spc' = IF IsGenerator(handler) THEN "stream" ELSE "raw"
            /\ hstate' = "running"
            /\ lwriter' = "none"
            /\ invoked' = IF hkwargs THEN <<>> ELSE handler
            /\ events' = Append(events, "task")
            /\ UNCHANGED <<authed, sent, rwriter, out, wclosed, dropped, writes,
                           logs, inflight, eof, replyFds, fdsSent>>
       ELSE \E o \in UnaryOutcomes :
            \* a keyword that the handler does not take is a TypeError
            /\ hkwargs => o = "exception"
            /\ invoked' = IF hkwargs THEN <<>> ELSE handler
            \* api_read opens the file before it returns the descriptor
            /\ events' = IF o = "fds" THEN events \o <<"call", "fopen">>
                          ELSE Append(events, "call")
            /\ hstate' = o
            \* an HttpResult built with redirect_to ends in the AttributeError
            \* of resp.redirect_to, inside the try block
            /\ IF o \in {"value", "httpresult", "exception", "redirect_to"}
               THEN LET r == UnaryReturn(o, handler, authed) IN
                    /\ lwriter' = rwriter
                    /\ WriteTo(rwriter,
                               (IF sent = 0
                                THEN HTTP_RESPONSE(r.code) \o HTTP_MIMETYPE(r.mt)
                                ELSE <<>>) \o r.resp,
                               <<r.kind>>)
                    /\ ServeFinally(rwriter)
                    /\ UNCHANGED <<replyFds, fdsSent>>
               ELSE IF o = "fds"
               THEN \* fds_result: the FDS_MIMETYPE branch of _serve_http
                    /\ lwriter' = rwriter
                    /\ IF ViaUnixDomain(callp.unix)
                       THEN /\ WriteTo(rwriter,
                                       (IF sent = 0 THEN HTTP_200_OK("application/json")
                                        ELSE <<>>)
                                         \o to_json(ListV(FdToMagicArg(FdV(OpenedFd)).b[1])),
                                       <<"resp">>)
                            /\ replyFds' = [replyFds EXCEPT ![rwriter] = <<OpenedFd>>]
                            /\ fdsSent' = Append(fdsSent,
                                   [fds |-> <<OpenedFd>>,
                                    unix |-> IF rwriter = "orig" THEN callp.unix
                                             ELSE TRUE])
                       ELSE /\ WriteTo(rwriter, Error500.data, <<"errresp">>)
                            /\ UNCHANGED <<replyFds, fdsSent>>
                    /\ ServeFinally(rwriter)
               ELSE /\ UNCHANGED <<lwriter, replyFds, fdsSent>>
                    /\ WriteTo(ExceptWriter(lwriter, rwriter), UnaryRaise(o),
                               <<"errresp">>)
                    /\ ServeFinally(lwriter)
            /\ UNCHANGED <<authed, rwriter>>
    /\ UNCHANGED <<cpc, buffer, ctype, readerOpen, finished, yielded, outcome,
                   chunks, peerGone, first, encRaw, respMime, emitted>>
    /\ UNCHANGED <<cfgUrlPath, callp, reqInflight, wireFds, sbuf, sfds,
                   handler, hkwargs, hargs>>

\* public_raw_ping, run by draining_raw_method
RawPing ==
    /\ UNCHANGED extVars
    /\ spc = "raw"
    /\ WriteTo(rwriter,
               IF authed THEN HTTP_200_OK(respMime) \o to_json(DictV(2))
               ELSE HTTP_200_STATIC_PONG,
               <<"resp">>)
    /\ EndOfRawMethod("returned")
    /\ UNCHANGED <<cpc, eof, buffer, ctype, readerOpen, finished, yielded,
                   outcome, chunks, peerGone, authed, rwriter, wclosed,
                   first, encRaw, respMime, emitted, srvVars>>

(***************************************************************************)
(* Spec: one call from its start to the end of the response.               *)
(***************************************************************************)
Init ==
    /\ IdleExt
    /\ cpc = "idle"
    /\ inflight = <<>>
    /\ eof = FALSE
    /\ buffer = <<>>
    /\ ctype = ""
    /\ readerOpen = TRUE
    /\ finished = FALSE
    /\ yielded = <<>>
    /\ outcome = "none"
    /\ chunks = <<>>
    /\ peerGone = FALSE
    /\ spc = "idle"
    /\ authed = FALSE
    /\ sent = 0
    /\ rwriter = "orig"
    /\ out = [w \in {"orig", "redir"} |-> <<>>]
    /\ wclosed = [w \in {"orig", "redir"} |-> FALSE]
    /\ dropped = <<>>
    /\ writes = <<>>
    /\ logs = 0
    /\ first = TRUE
    /\ encRaw = FALSE
    /\ respMime = "application/json"
    /\ emitted = <<>>
    /\ hstate = "none"
    /\ cfgUrlPath \in BOOLEAN
    /\ callp = NoCall
    /\ reqInflight = <<>>
    /\ wireFds = <<>>
    /\ replyFds = [w \in {"orig", "redir"} |-> <<>>]
    /\ fdsSent = <<>>
    /\ sbuf = <<>>
    /\ sfds = [any |-> TRUE, list |-> <<>>]
    /\ lwriter = "orig"
    /\ handler = <<>>
    /\ hkwargs = FALSE
    /\ invoked = <<>>
    /\ hargs = <<>>
    /\ events = <<>>

Next ==
    \/ Call \/ ServeRecv \/ Invoke \/ RawPing
    \/ StreamYield \/ StreamReturn \/ StreamEnd \/ StreamRaise \/ StreamClose
    \/ CallRecv

Spec == Init /\ [][Next]_vars

(***************************************************************************)
(* C1.                                                                     *)
(***************************************************************************)
AtEndOfInput == cpc = "done" /\ outcome \in {"end", "IncompleteStream"}

NumItems(ks) == Cardinality({ i \in 1..Len(ks) : ks[i] = "item" })

\* C1 as stated: at end-of-input the iteration raises IncompleteStream
\* when no zero-length chunk was decoded and ends without raising when one
\* was decoded.
C1_AsStated ==
    AtEndOfInput =>
        /\ Len(yielded) = NumItems(chunks)
        /\ ((\A i \in 1..Len(chunks) : chunks[i] # "zero")
               => outcome = "IncompleteStream")
        /\ ((\E i \in 1..Len(chunks) : chunks[i] = "zero")
               => outcome = "end")

\* C1, amended: at end-of-input every item chunk has been yielded, and the
\* iteration ends without raising exactly when the last chunk decoded was
\* a zero-length chunk; otherwise it raises IncompleteStream.
C1_LastChunkDecides ==
    AtEndOfInput =>
        /\ Len(yielded) = NumItems(chunks)
        /\ outcome = "end" <=>
              (chunks # <<>> /\ chunks[Len(chunks)] = "zero")

\* a zero-length chunk was decoded, an item followed it, and the input
\* ended
C1_Witness ==
    /\ AtEndOfInput
    /\ \E i \in 1..Len(chunks) : chunks[i] = "zero"
    /\ chunks[Len(chunks)] = "item"

(***************************************************************************)
(* Streaming calls (SpecStream).                                           *)
(***************************************************************************)
\* an emitted item as the caller compares it: an HttpResult by its data
ItemData(v) == IF v.t = "httpresult" THEN BytesV(v.b) ELSE v
Items(em) == [i \in 1..Len(em) |-> ItemData(em[i])]

IsSuffix(suf, s) ==
    Len(suf) <= Len(s) /\ SubSeq(s, Len(s) - Len(suf) + 1, Len(s)) = suf
IsPrefix(pre, s) == Len(pre) <= Len(s) /\ Take(s, Len(pre)) = pre

\* the client has come to the end of the reply (it did not go away)
ClientDone == cpc = "done" /\ outcome # "aborted"

\* C2: once the handler's generator is exhausted without raising, the
\* worker has written a zero-length chunk after every item chunk, and that
\* terminator stays the last thing written for the response: the last
\* write is the terminator, the writes before it are the head and items
\* (after the acknowledgement of a redirected reply, if any), and the
\* response ends with the bytes of the zero-length chunk.
C2_TerminatorLast ==
    hstate = "exhausted" =>
        /\ writes # <<>>
        /\ writes[Len(writes)] = "zero"
        /\ \A i \in 1..(Len(writes) - 1) : writes[i] \in {"ack", "head", "item"}
        /\ IsSuffix(ZeroChunk, out[rwriter])
        /\ dropped = <<>>

C2_Witness ==
    /\ hstate = "exhausted"
    /\ spc = "closed"
    /\ Len(emitted) = MaxItems
    /\ NumItems(writes) = MaxItems

\* C3 as stated: every streaming response that completes starts with the
\* chunked response head, also when the handler emitted no item, and the
\* client's iteration over the reply of a handler without items ends with
\* no items and no error.
C3_AsStated ==
    hstate = "exhausted" =>
        /\ IsPrefix(HTTP_200_CHUNKED_OK(respMime), out[rwriter])
        /\ (emitted = <<>> /\ ClientDone) => (outcome = "end" /\ yielded = <<>>)

\* C8 as stated: when the handler has completed normally and the client
\* has come to the end of the reply, the items the client's iteration
\* yielded are the items the handler emitted, in the same order, whatever
\* the sizes of the reads.
C8_AsStated ==
    (hstate = "exhausted" /\ ClientDone) => yielded = Items(emitted)

\* the handler yielded exactly one value, which was sent, and then raised
OneThenThrew ==
    /\ hstate \in {"threw", "threwIO"}
    /\ Len(emitted) = 1
    /\ ~first

C10_AsStated ==
    (hstate \in {"threw", "threwIO"} /\ ~first /\ writes[1] = "head") =>
        /\ writes[Len(writes)] = "errchunk"
        /\ \A i \in 1..(Len(writes) - 1) : writes[i] \in {"head", "item"}

(***************************************************************************)
(* Calls (Spec).                                                           *)
(***************************************************************************)
CallMade == callp # NoCall

\* the worker has read the request and has come to the handler or to an
\* error response
Dispatched == spc \notin {"idle", "recv"}

\* _serve_http or the background task of the request is over
Served == spc = "closed"

IsPrivate(h) == h # <<>> /\ h[1] \in {"api", "raw"}

\* the path of a request without the secret, as the worker resolves it
PathSeen(c) == IF cfgUrlPath THEN <<"/", c.fn>> ELSE CallPath(c)

Resp403(path) == HTTP_RESPONSE(403) \o HTTP_JSON \o to_json(ErrMsgV(0, path))

Resp404 == HTTP_RESPONSE(404) \o HTTP_NOT_FOUND

\* C4 as stated: a request whose head does not hold the secret never has
\* a private handler found or invoked for it, is tagged not-authed, and is
\* either served by a public handler or rejected with the 403 that is
\* made from the path of the request alone.
C4_AsStated ==
    (CallMade /\ ~callp.secret) =>
        /\ ~authed
        /\ ~IsPrivate(handler) /\ ~IsPrivate(invoked)
        /\ (Dispatched /\ handler = <<>>) =>
               /\ Served
               /\ out["orig"] = Resp403(PathSeen(callp))

\* C4, amended: a request whose head does not hold the secret never has
\* a private handler found or invoked for it and is tagged not-authed; it
\* is rejected with 404 if the worker has a URL path that the request's
\* path does not start with, and otherwise it is served by a public
\* handler or rejected with the 403 that is made from the path of the
\* request alone, whether or not a private handler of that name exists.
C4_NoPrivateWithoutSecret ==
    (CallMade /\ ~callp.secret) =>
        /\ ~authed
        /\ ~IsPrivate(handler) /\ ~IsPrivate(invoked)
        /\ (Dispatched /\ handler = <<>>) =>
               /\ Served
               /\ out["orig"] = IF cfgUrlPath /\ ~callp.prefix THEN Resp404
                                ELSE Resp403(PathSeen(callp))
        /\ (Dispatched /\ handler # <<>>) => ~(cfgUrlPath /\ ~callp.prefix)

C4_Witness ==
    /\ CallMade /\ ~callp.secret /\ callp.fn = "priv"
    /\ <<"api", "priv">> \in Registry
    /\ Served
    /\ out["orig"] = Resp403(<<"/", "priv">>)
    /\ cpc = "done" /\ outcome = "PermissionError"

\* C5 as stated: when a call over a local-domain connection has positional
\* arguments with descriptors among them, the handler is called with
\* arguments that hold, at the same positions and in the same order, the
\* open descriptors, and every other argument unchanged.
C5_AsStated ==
    (CallMade /\ callp.unix /\ SelectFds(callp.args) # <<>> /\ Dispatched) =>
        /\ handler # <<>>
        /\ hargs = callp.args
        /\ spc \in {"closed", "stream", "raw", "sleep"} => invoked = handler

C7_AsStated ==
    rwriter = "redir" =>
        /\ events[1] = "open" /\ events[2] = "ack" /\ events[3] = "close"
        /\ events[4] = "swap"
        /\ wclosed["orig"]
        /\ out["orig"] = HTTP_202_REPLIED_TO_FIRST_FD
        /\ dropped = <<>>
        /\ Served => out["redir"] # <<>>

\* the bytes hold an error record with a 'traceback'
HasTraceback(bytes) == \E i \in 1..Len(bytes) : bytes[i] = "T"

\* C12 as stated: nothing that the worker writes for a request that is not
\* authed holds a server stack trace, on whatever path the error arises.
C12_AsStated ==
    ~authed =>
        /\ ~HasTraceback(out["orig"])
        /\ ~HasTraceback(out["redir"])
        /\ ~HasTraceback(dropped)

(***************************************************************************)
(* SpecLookup: the lookup of the handler of a request on its own, for a    *)
(* worker with any set of handlers for one name.                           *)
(***************************************************************************)
HandlerKinds == <<"raw", "api", "public_raw", "public_api">>

LookupNames == {"n"}

LookupPaths == { <<"/", "n">>, <<"/", "n", "/", "x">>, <<"/">>, <<"/", "m">> }

LookupHandlers == { <<HandlerKinds[i], n>> : i \in 1..4, n \in LookupNames }

\* _handle_http_request: an api method that is an async generator function
\* is wrapped, and the wrapper takes the place of raw_method
CalledMethod(gs, m) ==
    IF m.api # <<>> /\ m.api \in gs THEN m.api ELSE ChosenMethod(m)

Lookup ==
    /\ ~lfound.done
    /\ LET m == GetApiMethodsIn(registry, lpath, lauthed) IN
       lfound' = IF m.ok
                 THEN [done |-> TRUE, ok |-> TRUE, handler |-> ChosenMethod(m),
                       invoked |-> CalledMethod(gens, m)]
                 ELSE [done |-> TRUE, ok |-> FALSE, handler |-> <<>>,
                       invoked |-> <<>>]
    /\ UNCHANGED <<registry, gens, lpath, lauthed>>
    /\ UNCHANGED <<cliVars, reqVars, genVars, srvVars, lifeVars, parVars, hopVars,
                   excVars, moreVars>>

InitLookup ==
    /\ registry \in SUBSET LookupHandlers
    /\ gens \in SUBSET { h \in registry : h[1] \in {"api", "public_api"} }
    /\ lpath \in LookupPaths
    /\ lauthed \in BOOLEAN
    /\ lfound = [done |-> FALSE, ok |-> FALSE, handler |-> <<>>, invoked |-> <<>>]
    /\ IdleClient
    /\ IdleWorker
    /\ IdleLife
    /\ IdlePar
    /\ IdleChain
    /\ IdleExc
    /\ IdleMore

NextLookup == Lookup

SpecLookup == InitLookup /\ [][NextLookup]_vars

\* the kinds of handler a request may reach, in the order of the claim
EligibleKinds(isAuthed) ==
    { i \in 1..4 : isAuthed \/ HandlerKinds[i] \in {"public_raw", "public_api"} }

\* the first handler of that name that exists, in that order; <<>> if none
FirstInOrder(reg, name, isAuthed) ==
    LET there == { i \in EligibleKinds(isAuthed) : <<HandlerKinds[i], name>> \in reg }
    IN  IF there = {} THEN <<>>
        ELSE <<HandlerKinds[CHOOSE i \in there : \A j \in there : i <= j], name>>

\* C11 as stated: the handler that is called for a request with base name
\* N is the first that exists in the order raw_N, api_N, public_raw_N,
\* public_api_N, the first two being skipped for a request that is not
\* authed; and no handler is called only if none of them exists.
C11_AsStated ==
    lfound.done =>
        lfound.invoked = FirstInOrder(registry, MethodName(lpath), lauthed)

(***************************************************************************)
(* SpecLife: worker processes from launch to exit, the url-file and the    *)
(* sock-file they make and remove, and connect(auto_start=True) called     *)
(* MaxConnects times in a row.  The worker runs with the default           *)
(* configuration (TCP and unix-domain listeners); a process takes its      *)
(* steps at any speed.                                                     *)
(***************************************************************************)
\* what the steps of a worker and of connect() leave alone
notLife == <<cliVars, reqVars, genVars, srvVars, lookVars, parVars, hopVars,
            excVars, moreVars>>

Perms == {"ur", "uw", "ux", "gr", "gw", "gx", "or", "ow", "ox"}

\* os.chmod(self._urlfile, 0o600)
Mode0600 == {"ur", "uw"}

\* the mode that open(path, 'w') asks for when it creates the file, and
\* the mode that bind() asks for when it creates the socket file
FileCreateMode == Perms \ {"ux", "gx", "ox"}
SockCreateMode == Perms

\* the masks 000, 022 and 077 of the environment
Umasks == { {}, {"gw", "ow"}, {"gr", "gw", "gx", "or", "ow", "ox"} }

\* retry=3 of connect(): the loop runs for tried = 0..retry
ConnectRetry == 3

\* the url-file holds a secret and has a mode wider than 0600
ExposedBy(f) == f.exists /\ f.content # 0 /\ ~(f.mode \subseteq Mode0600)

\* _make_server_socket: the TCP socket is bound and listens
MakeServerSocket(w) ==
    /\ wk[w].pc = "start"
    /\ wk' = [wk EXCEPT ![w].pc = "bound"]
    /\ UNCHANGED <<umask, urlfile, sockfile, fresh, conn, pings, exposed>>
    /\ UNCHANGED notLife

\* with open(self._urlfile, 'w'): the file is made, or emptied if it is
\* there
OpenUrlFile(w) ==
    /\ wk[w].pc = "bound"
    /\ urlfile' = IF urlfile.exists THEN [urlfile EXCEPT !.content = 0]
                  ELSE [exists |-> TRUE, mode |-> FileCreateMode \ umask,
                        content |-> 0, ino |-> w]
    /\ wk' = [wk EXCEPT ![w].pc = "opened", ![w].fd = urlfile'.ino]
    /\ exposed' = (exposed \/ ExposedBy(urlfile'))
    /\ UNCHANGED <<umask, sockfile, fresh, conn, pings>>
    /\ UNCHANGED notLife

\* _remove_files, servers closed, the stop line logged, os._exit
RealShutdown(w, before) ==
    /\ urlfile' = NoFile
    /\ sockfile' = NoSock
    /\ wk' = [wk EXCEPT ![w].pc = "exited",
                        ![w].log = before \o <<"rm_url", "rm_sock", "exit">>]

\* the finally of _process_run: asyncio.run(self.shutdown()), and then
\* _real_shutdown if the hook did not raise
ProcessRunFinally(w, raises) ==
    IF raises
    THEN /\ wk' = [wk EXCEPT ![w].pc = "exited", ![w].log = <<"hook", "died">>]
         /\ UNCHANGED <<urlfile, sockfile>>
    ELSE RealShutdown(w, <<"hook">>)

\* os.chmod(self._urlfile, 0o600); the path may be gone by now, which
\* crashes the worker
ChmodUrlFile(w) ==
    /\ wk[w].pc = "opened"
    /\ IF urlfile.exists
       THEN /\ wk' = [wk EXCEPT ![w].pc = "chmoded"]
            /\ urlfile' = [urlfile EXCEPT !.mode = Mode0600]
            /\ UNCHANGED sockfile
       ELSE \E raises \in BOOLEAN : ProcessRunFinally(w, raises)
    /\ exposed' = (exposed \/ ExposedBy(urlfile'))
    /\ UNCHANGED <<umask, fresh, conn, pings>>
    /\ UNCHANGED notLife

\* fd.write(self._url) and the end of the with block: the url goes into
\* the file that was opened, which may no longer be the one at the path
WriteUrlFile(w) ==
    /\ wk[w].pc = "chmoded"
    /\ wk' = [wk EXCEPT ![w].pc = "written"]
    /\ urlfile' = IF urlfile.exists /\ urlfile.ino = wk[w].fd
                  THEN [urlfile EXCEPT !.content = w]
                  ELSE urlfile
    /\ exposed' = (exposed \/ ExposedBy(urlfile'))
    /\ UNCHANGED <<umask, sockfile, fresh, conn, pings>>
    /\ UNCHANGED notLife

\* _main_httpd_loop: the servers start; start_unix_server makes the
\* sock-file, in place of one that is there
MainHttpdLoop(w) ==
    /\ wk[w].pc = "written"
    /\ wk' = [wk EXCEPT ![w].pc = "serving"]
    /\ sockfile' = [exists |-> TRUE, mode |-> SockCreateMode \ umask, owner |-> w]
    /\ UNCHANGED <<umask, urlfile, fresh, conn, pings, exposed>>
    /\ UNCHANGED notLife

\* api_quitquitquit: the hook is awaited, what it raises is dropped, and
\* _real_shutdown runs from the event loop
ApiQuitquitquit(w) ==
    /\ wk[w].pc = "serving"
    /\ RealShutdown(w, <<"hook">>)
    /\ UNCHANGED <<umask, fresh, conn, pings, exposed>>
    /\ UNCHANGED notLife

\* KeyboardInterrupt or CancelledError anywhere in _process_run
Interrupt(w) ==
    /\ wk[w].pc \in {"start", "bound", "opened", "chmoded", "written", "serving"}
    /\ \E raises \in BOOLEAN : ProcessRunFinally(w, raises)
    /\ UNCHANGED <<umask, fresh, conn, pings, exposed>>
    /\ UNCHANGED notLife

\* any other exception out of the main loop
Crash(w) ==
    /\ wk[w].pc = "serving"
    /\ \E raises \in BOOLEAN : ProcessRunFinally(w, raises)
    /\ UNCHANGED <<umask, fresh, conn, pings, exposed>>
    /\ UNCHANGED notLife

\* what one pass of the loop in connect() gets from reading the url-file
\* and calling ping: "pong", "fail" (OSError, NotRunning, a refused or
\* reset connection) or "wait" (the worker listens but does not serve yet,
\* the request is queued)
PingOutcome ==
    IF ~urlfile.exists \/ urlfile.content = 0 THEN "fail"
    ELSE IF wk[urlfile.content].pc = "serving" THEN "pong"
    ELSE IF wk[urlfile.content].pc = "exited" THEN "fail"
    ELSE "wait"

\* the next process to be made by Process(target=self._process_run)
NewWorker == CHOOSE w \in Workers :
                 /\ wk[w].pc = "none"
                 /\ \A v \in Workers : v < w => wk[v].pc # "none"

\* the call returns or raises, and the next call in the row begins; a
\* fresh object has no _process
ConnectNext(result, proc) ==
    /\ pings' = Append(pings, result)
    /\ conn' = [k |-> IF conn.k = MaxConnects THEN conn.k ELSE conn.k + 1,
                tried |-> 0,
                auto |-> TRUE,
                pc |-> IF conn.k = MaxConnects THEN "done" ELSE "try",
                proc |-> IF fresh THEN 0 ELSE proc]

\* the end of one pass: the loop goes on, or it is over and NotRunning is
\* raised
ConnectLoop(proc) ==
    IF conn.tried = ConnectRetry
    THEN ConnectNext("NotRunning", proc)
    ELSE /\ conn' = [conn EXCEPT !.tried = conn.tried + 1, !.auto = FALSE,
                                 !.pc = "try", !.proc = proc]
         /\ UNCHANGED pings

\* Process(...).start()
ConnectLaunch(w) ==
    /\ wk' = [wk EXCEPT ![w].pc = "start"]
    /\ ConnectLoop(w)

\* one pass of the loop of connect(): read the url-file, ping, and on
\* failure launch the worker if auto_start is still set
Connect ==
    /\ conn.pc = "try"
    /\ PingOutcome # "wait"
    /\ IF PingOutcome = "pong"
       THEN /\ ConnectNext("pong", conn.proc)
            /\ UNCHANGED wk
       ELSE IF ~conn.auto
       THEN /\ ConnectLoop(conn.proc)
            /\ UNCHANGED wk
       ELSE IF conn.proc # 0 /\ wk[conn.proc].pc # "exited"
       THEN /\ conn' = [conn EXCEPT !.pc = "join"]
            /\ UNCHANGED <<wk, pings>>
       ELSE ConnectLaunch(NewWorker)
    /\ UNCHANGED <<umask, urlfile, sockfile, fresh, exposed>>
    /\ UNCHANGED notLife

\* self._process.join() returns when the earlier worker of this object is
\* gone
ConnectJoin ==
    /\ conn.pc = "join"
    /\ wk[conn.proc].pc = "exited"
    /\ ConnectLaunch(NewWorker)
    /\ UNCHANGED <<umask, urlfile, sockfile, fresh, exposed>>
    /\ UNCHANGED notLife

InitLife ==
    /\ umask \in Umasks
    /\ fresh \in BOOLEAN
    /\ urlfile = NoFile
    /\ sockfile = NoSock
    /\ wk = [w \in Workers |-> [pc |-> "none", log |-> <<>>, fd |-> 0]]
    /\ conn = [k |-> 1, tried |-> 0, auto |-> TRUE, pc |-> "try", proc |-> 0]
    /\ pings = <<>>
    /\ exposed = FALSE
    /\ IdleClient
    /\ IdleWorker
    /\ IdleLookup
    /\ IdlePar
    /\ IdleChain
    /\ IdleExc
    /\ IdleMore

NextLife ==
    \/ \E w \in Workers : MakeServerSocket(w)
    \/ \E w \in Workers : OpenUrlFile(w)
    \/ \E w \in Workers : ChmodUrlFile(w)
    \/ \E w \in Workers : WriteUrlFile(w)
    \/ \E w \in Workers : MainHttpdLoop(w)
    \/ \E w \in Workers : ApiQuitquitquit(w)
    \/ \E w \in Workers : Interrupt(w)
    \/ \E w \in Workers : Crash(w)
    \/ Connect
    \/ ConnectJoin

SpecLife == InitLife /\ [][NextLife]_vars

\* no worker was told to stop and none crashed
NoStops == \A w \in Workers : wk[w].log = <<>>

Running == { w \in Workers : wk[w].pc \notin {"none", "exited"} }

\* C13 (as stated): while nothing stops a worker, every call of
\* connect(auto_start=True) in the row ends with a successful ping, and
\* after the last call exactly one worker process is running, however
\* long the worker takes between its launch and its first served request.
C13_AsStated ==
    NoStops =>
        /\ \A i \in 1..Len(pings) : pings[i] = "pong"
        /\ conn.pc = "done" => Cardinality(Running) = 1

\* C14 (as stated): a worker that has exited, on any shutdown path and
\* whether or not its cleanup hook raised, ran the hook first and then
\* removed the url-file and the sock-file before it exited.
C14_AsStated ==
    \A w \in Workers :
        wk[w].pc = "exited" =>
            wk[w].log = <<"hook", "rm_url", "rm_sock", "exit">>

\* C15 (as stated): the url-file and the sock-file never have a mode wider
\* than 0600, and the secret is never in a url-file with a wider mode.
C15_AsStated ==
    /\ urlfile.exists => urlfile.mode \subseteq Mode0600
    /\ sockfile.exists => sockfile.mode \subseteq Mode0600
    /\ ~exposed

(***************************************************************************)
(* C16.  The end of a request: _serve_http's finally for a handler that    *)
(* returns a value, draining_raw_method for a background task.             *)
(***************************************************************************)
\* the writer that carries the response: the one of the request, after a
\* redirection the one of the descriptor
ResponseWriter == rwriter

\* C16 (as stated): when the worker is done with a request, whatever the
\* handler was and however it ended, with or without redirection of the
\* reply, the writer that carries the response is closed and exactly one
\* log record has been made.
C16_AsStated ==
    Served => /\ wclosed[ResponseWriter]
              /\ logs = 1

(***************************************************************************)
(* SpecPar: the event loop of one worker.  asyncio.start_server runs       *)
(* _serve_http as a task of its own for every accepted connection; a task  *)
(* holds the loop until it awaits.  The handler is public_api_slow_meow,   *)
(* which sleeps for the delay it is given and then returns.  The loop      *)
(* sleeps (time passes) only when no task is ready to run.                 *)
(***************************************************************************)
notPar == <<cliVars, reqVars, genVars, srvVars, lookVars, lifeVars, hopVars,
           excVars, moreVars>>

Delays == 0..MaxDelay

\* a server that takes the next connection only when no handler is
\* suspended
CanServeSerial(c) == \A d \in Conns : tasks[d].pc # "suspended"

\* whether the loop can start _serve_http for a connection while other
\* handlers are suspended: start_server makes one task per connection
CanServe(c) == TRUE

\* a request arrives on a new connection
Arrive(c) ==
    /\ tasks[c].pc = "none"
    /\ c = Len(arrivals) + 1
    /\ \E d \in Delays :
         tasks' = [tasks EXCEPT ![c] = [pc |-> "arrived", at |-> now,
                                        delay |-> d, due |-> 0]]
    /\ arrivals' = Append(arrivals, c)
    /\ UNCHANGED <<replies, now>>
    /\ UNCHANGED notPar

\* the task of the connection runs: the request is parsed and dispatched,
\* and the handler runs up to its await asyncio.sleep(delay)
ServeHttp(c) ==
    /\ tasks[c].pc = "arrived"
    /\ CanServe(c)
    /\ tasks' = [tasks EXCEPT ![c].pc = "suspended",
                              ![c].due = now + tasks[c].delay]
    /\ UNCHANGED <<arrivals, replies, now>>
    /\ UNCHANGED notPar

\* the timers that have run out
Due == { c \in Conns : tasks[c].pc = "suspended" /\ tasks[c].due <= now }

\* the sleep of a handler is over (timers run in the order of their
\* deadlines): the handler returns, _serve_http writes the response and
\* closes the writer
HandlerReturns(c) ==
    /\ c \in Due
    /\ \A d \in Due : tasks[c].due <= tasks[d].due
    /\ tasks' = [tasks EXCEPT ![c].pc = "answered"]
    /\ replies' = Append(replies, c)
    /\ UNCHANGED <<arrivals, now>>
    /\ UNCHANGED notPar

\* nothing is ready: the loop waits in select() and time passes
LoopSleeps ==
    /\ now < MaxConns + MaxDelay
    /\ Due = {}
    /\ \A c \in Conns : tasks[c].pc = "arrived" => ~CanServe(c)
    /\ now' = now + 1
    /\ UNCHANGED <<tasks, arrivals, replies>>
    /\ UNCHANGED notPar

InitPar ==
    /\ IdlePar
    /\ IdleClient
    /\ IdleWorker
    /\ IdleLookup
    /\ IdleLife
    /\ IdleChain
    /\ IdleExc
    /\ IdleMore

NextPar ==
    \/ \E c \in Conns : Arrive(c)
    \/ \E c \in Conns : ServeHttp(c)
    \/ \E c \in Conns : HandlerReturns(c)
    \/ LoopSleeps

SpecPar == InitPar /\ [][NextPar]_vars

\* C17: a request is parsed and dispatched at the time it arrives, whatever
\* handlers are suspended then, so its handler finishes at arrival time
\* plus its own delay; and the replies are completed in the order in which
\* the handlers finish.
C17_Concurrent ==
    /\ \A c \in Conns :
          tasks[c].pc \in {"suspended", "answered"}
              => tasks[c].due = tasks[c].at + tasks[c].delay
    /\ \A i, j \in 1..Len(replies) :
          i < j => tasks[replies[i]].due <= tasks[replies[j]].due

\* two requests were answered in the reverse of the order of arrival, the
\* later one having been served while the earlier handler was suspended
C17_Witness ==
    /\ Len(replies) >= 2
    /\ replies[1] > replies[2]
    /\ tasks[replies[1]].at < tasks[replies[2]].due

(***************************************************************************)
(* SpecChain: api_ping_pong of the FileCat test.  The initiator calls      *)
(* ping_pong(ball, count) on worker A.  The handler of hop d emits one     *)
(* item; unless it is the last of the chain it then calls ping_pong on     *)
(* the other worker with call_reply_to set to its own request, so that     *)
(* hop d+1 writes to the initiator's connection, and ends.  Hops with odd  *)
(* d run on A, hops with even d on B.  The initiator reads the reply with  *)
(* call() and the chunk decoder, in reads of any sizes.                    *)
(***************************************************************************)
notChain == <<reqVars, genVars, srvVars, lookVars, lifeVars, parVars, excVars,
             moreVars>>

\* "I am <worker_name>, ...": 7 stands for the text of A, 12 for that of B
ItemOf(d) == IntV(IF d % 2 = 1 THEN 7 ELSE 12)

\* request_obj.sent = int(reply_to_fd1)
SentZero(replyToFd1) == 0
SentOnRedirect(replyToFd1) == replyToFd1

\* what call() returns for the acknowledgement, read from the connection
\* of the delegating call
AckResult ==
    CallResult(ParseHead(HTTP_202_REPLIED_TO_FIRST_FD).hlines,
               ParseHead(HTTP_202_REPLIED_TO_FIRST_FD).body, <<>>)

\* the handler's first item: the head unless bytes were sent before, and
\* the chunk
HopYield(d) ==
    /\ hops[d].pc = "running"
    /\ LET data == StreamHead(TRUE, hops[d].sent, "application/json").data
                       \o ChunkBytes(Enc(FALSE, ItemOf(d)))
       IN  /\ inflight' = inflight \o data
           /\ hops' = [hops EXCEPT ![d].pc = "yielded",
                                   ![d].sent = @ + Len(data)]
    /\ UNCHANGED <<count, holders, callRes, eof>>
    /\ UNCHANGED <<cpc, buffer, ctype, readerOpen, finished, yielded, outcome,
                   chunks, peerGone>>
    /\ UNCHANGED notChain

\* self._other_filecat.ping_pong(ball, count, call_reply_to=request_info):
\* the socket of the request travels with the call, and the other worker
\* acknowledges on the connection of the call, closes it and takes the
\* socket as the writer of its request
HopDelegate(d) ==
    /\ hops[d].pc = "yielded"
    /\ d < count
    /\ hops' = [hops EXCEPT ![d].pc = "calling",
                            ![d + 1] = [pc |-> "running",
                                        sent |-> SentOnRedirect(hops[d].sent)]]
    /\ holders' = holders \cup {d + 1}
    /\ UNCHANGED <<count, callRes>>
    /\ UNCHANGED cliVars
    /\ UNCHANGED notChain

\* the delegating call returns what the other worker answered; the
\* convenience generator yields it, and the handler yields an error item
\* unless it is the acknowledgement
HopAck(d) ==
    /\ hops[d].pc = "calling"
    /\ callRes' = [callRes EXCEPT ![d] = <<AckResult.value>>]
    /\ IF AckResult.outcome = "value" /\ AckResult.value = DictV(1)
       THEN /\ hops' = [hops EXCEPT ![d].pc = "acked"]
            /\ UNCHANGED inflight
       ELSE LET data == ChunkBytes(Enc(FALSE, ErrV(0))) IN
            /\ inflight' = inflight \o data
            /\ hops' = [hops EXCEPT ![d].pc = "acked", ![d].sent = @ + Len(data)]
    /\ UNCHANGED <<count, holders, eof>>
    /\ UNCHANGED <<cpc, buffer, ctype, readerOpen, finished, yielded, outcome,
                   chunks, peerGone>>
    /\ UNCHANGED notChain

\* the generator of the handler is exhausted: raw_method sends the empty
\* chunk, draining_raw_method logs and sleeps
HopEnd(d) ==
    /\ \/ hops[d].pc = "acked"
       \/ hops[d].pc = "yielded" /\ d = count
    /\ inflight' = inflight \o Terminator
    /\ hops' = [hops EXCEPT ![d].pc = "sleep", ![d].sent = @ + Len(Terminator)]
    /\ UNCHANGED <<count, holders, callRes, eof>>
    /\ UNCHANGED <<cpc, buffer, ctype, readerOpen, finished, yielded, outcome,
                   chunks, peerGone>>
    /\ UNCHANGED notChain

\* request_obj.writer.close: the initiator sees end-of-input once no
\* worker holds its connection
HopClose(d) ==
    /\ hops[d].pc = "sleep"
    /\ hops' = [hops EXCEPT ![d].pc = "closed"]
    /\ holders' = holders \ {d}
    /\ eof' = (holders \ {d} = {})
    /\ UNCHANGED <<count, callRes, inflight>>
    /\ UNCHANGED <<cpc, buffer, ctype, readerOpen, finished, yielded, outcome,
                   chunks, peerGone>>
    /\ UNCHANGED notChain

InitChain ==
    /\ count \in Hops
    /\ hops = [d \in Hops |-> IF d = 1 THEN [pc |-> "running", sent |-> 0]
                              ELSE NoHop]
    /\ holders = {1}
    /\ callRes = [d \in Hops |-> <<>>]
    /\ cpc = "recv"
    /\ inflight = <<>>
    /\ eof = FALSE
    /\ buffer = <<>>
    /\ ctype = ""
    /\ readerOpen = TRUE
    /\ finished = FALSE
    /\ yielded = <<>>
    /\ outcome = "none"
    /\ chunks = <<>>
    /\ peerGone = FALSE
    /\ IdleWorker
    /\ IdleLookup
    /\ IdleLife
    /\ IdlePar
    /\ IdleExc
    /\ IdleMore

NextChain ==
    \/ \E d \in Hops : HopYield(d)
    \/ \E d \in Hops : HopDelegate(d)
    \/ \E d \in Hops : HopAck(d)
    \/ \E d \in Hops : HopEnd(d)
    \/ \E d \in Hops : HopClose(d)
    \/ CallRecv \/ DecodeCut \/ DecodeRead \/ DecodeEnd

SpecChain == InitChain /\ [][NextChain]_vars

\* the items of a chain of k hops, alternating between the two workers
Expected(k) == [i \in 1..k |-> ItemOf(i)]

\* C18: what the initiator has been given is at every moment a prefix of
\* the items of the hops in the order of the chain; when its iteration is
\* over it has been given all of them and the stream was complete; and
\* each delegating call yielded the 202 acknowledgement and nothing else.
C18_Delegated ==
    /\ IsPrefix(yielded, Expected(count))
    /\ cpc = "done" => outcome = "end" /\ yielded = Expected(count)
    /\ \A d \in Hops :
          hops[d].pc \in {"acked", "sleep", "closed"} /\ d < count
              => callRes[d] = <<DictV(1)>>

\* the iteration over a chain of MaxHops delegations is over, and an empty
\* chunk of an earlier hop came between two items
C18_Witness ==
    /\ count = MaxHops
    /\ cpc = "done"
    /\ Len(yielded) = MaxHops
    /\ \E i \in 1..Len(chunks) - 1 : chunks[i] = "zero" /\ chunks[i + 1] = "item"

(***************************************************************************)
(* C19.  A descriptor result asked for over TCP.                           *)
(***************************************************************************)
\* the handler has opened a file for this request
FileOpened == \E i \in 1..Len(events) : events[i] = "fopen"

\* the call was made over TCP and reached a handler that returns a
\* descriptor result
FdsResultOverTcp == CallMade /\ ~callp.unix /\ hstate = "fds"

\* C19 (as stated): a call over TCP to a handler that returns a descriptor
\* result ends with an error at the caller, and the worker has opened no
\* file for it.
C19_AsStated ==
    FdsResultOverTcp =>
        /\ ~FileOpened
        /\ cpc = "done" => outcome \notin {"value", "none", "end"}

(***************************************************************************)
(* SpecExc: the end of call() for a reply of any status: resp_code is the  *)
(* status, result what the body was decoded to.                            *)
(***************************************************************************)
StatusCodes ==
    {100, 200, 202, 299, 300, 302, 307, 399, 400, 401, 402, 403, 404, 405, 407,
     418, 422, 423, 424, 499, 500, 502, 503, 599, 600}

\* results of decoding a body: error records without and with traceback,
\* a NeedInfo record (error, needed_vars, resource), mappings without an
\* 'error' entry (the empty result of an empty body among them), the
\* HttpResult of a body of another mimetype, a JSON list and a JSON number
ReplyResults ==
    { ErrV(0), ErrV(1), ErrV(2), EmptyDict, DictV(1), BytesV(<<"a">>),
      ListV("x"), IntV(7) }

\* return result, return the decoder, or raise _get_exception(...)
CallEnd ==
    /\ xraised = "none"
    /\ xraised' = CallReturn(xcode, FALSE, xresult).outcome
    /\ UNCHANGED <<xcode, xresult>>
    /\ UNCHANGED <<cliVars, reqVars, genVars, srvVars, lookVars, lifeVars,
                   parVars, hopVars, moreVars>>

InitExc ==
    /\ xcode \in StatusCodes
    /\ xresult \in ReplyResults
    /\ xraised = "none"
    /\ IdleClient
    /\ IdleWorker
    /\ IdleLookup
    /\ IdleLife
    /\ IdlePar
    /\ IdleChain
    /\ IdleMore

NextExc == CallEnd

SpecExc == InitExc /\ [][NextExc]_vars

\* the exception that the status stands for
ByStatus(code) ==
    IF 300 <= code /\ code < 400 THEN "IOError"
    ELSE IF code \in {401, 403, 407} THEN "PermissionError"
    ELSE IF code = 404 THEN "KeyError"
    ELSE IF code = 423 THEN "NeedInfo"
    ELSE IF 400 <= code /\ code < 500 THEN "ValueError"
    ELSE "RuntimeError"

Is2xx(code) == 200 <= code /\ code < 300

\* C20 (as stated): for a reply whose status is not 2xx, call() raises the
\* exception that the status stands for.
C20_AsStated ==
    xraised # "none" /\ ~Is2xx(xcode) => xraised = ByStatus(xcode)

RedirectSignalled ==
    /\ rwriter = "orig"
    /\ \/ spc = "closed" /\ hstate \in {"redirect", "redirect_to"}
       \/ /\ spc \in {"sleep", "closed"}
          /\ hstate = "threw"
          /\ emitted = <<>>
          /\ events # <<>>
          /\ events[Len(events)] = "Redirect"

\* C22 (as stated): the response to a redirect signalled before any byte
\* was written is a 302 with a Location header that names the target.
C22_AsStated ==
    RedirectSignalled =>
        /\ IsPrefix(HTTP_RESPONSE(302), out["orig"])
        /\ \E i \in 1..Len(out["orig"]) : out["orig"][i] = "Location: /target"
(***************************************************************************)
(* SpecBad: requests that call() did not write.  A client of its own       *)
(* making writes the bytes of one request, well-formed or not, and shuts   *)
(* down its side of the connection; the worker reads them in reads of any  *)
(* sizes.                                                                  *)
(***************************************************************************)
\* a request for public_api_pub with the body of a call without arguments
GoodRequest ==
    HttpReq([fn |-> "pub", args |-> <<>>, replyTo |-> -1, prefix |-> FALSE,
             secret |-> FALSE, unix |-> FALSE])

\* the head of a POST to public_api_pub with a JSON body of n bytes
PostHead(n) ==
    <<"POST", " ", "/", "pub", " ", "HTTP/1.1", LF,
      "Content-Type: application/json", LF,
      "Content-Length: ">> \o Digits(n, 10) \o <<LF, LF>>

\* more bytes than worker_http_request_max_size
TooLarge ==
    PostHead(WorkerHttpRequestMaxSize + 8)
        \o [i \in 1..(WorkerHttpRequestMaxSize + 8) |-> "x"]

\* the connection ends before the empty line that ends the header block
NoHeaderBlock == <<"POST", " ", "/", "pub", " ", "HTTP/1.1", LF, "Connection: close", LF>>

\* the connection ends before the body is complete
ShortBody == PostHead(5) \o <<"{", "_args">>

\* a request line of two words
BadRequestLine == <<"POST", " ", "/", "pub", LF, LF>>

\* a header line without ': '
BadHeaderLine == <<"POST", " ", "/", "pub", " ", "HTTP/1.1", LF, "NoColonHere", LF, LF>>

\* a body that is no JSON
BadJsonBody == PostHead(3) \o <<"x", "x", LF>>

\* a body that is no UTF-8 text
BadUtf8Body == PostHead(3) \o <<BadByte, "x", LF>>

\* the requests that fail parsing
BadRequests ==
    {TooLarge, NoHeaderBlock, ShortBody, BadRequestLine, BadHeaderLine,
     BadJsonBody, BadUtf8Body}

\* _http11 when the connection has ended: 'Header not found in HTTP data'
\* or 'HTTP data incomplete'
ServeEof ==
    /\ UNCHANGED extVars
    /\ spc = "recv"
    /\ callp = NoCall
    /\ reqInflight = <<>>
    /\ sfds' = [any |-> FALSE, list |-> <<>>]
    /\ ServeDispatched(Error500)
    /\ UNCHANGED <<cpc, buffer, ctype, readerOpen, finished, yielded, outcome,
                   chunks, peerGone, genVars, cfgUrlPath, callp, reqInflight,
                   wireFds, replyFds, fdsSent, sbuf, invoked>>

InitBad ==
    /\ IdleExt
    /\ cpc = "recv"
    /\ inflight = <<>>
    /\ eof = FALSE
    /\ buffer = <<>>
    /\ ctype = ""
    /\ readerOpen = TRUE
    /\ finished = FALSE
    /\ yielded = <<>>
    /\ outcome = "none"
    /\ chunks = <<>>
    /\ peerGone = FALSE
    /\ spc = "recv"
    /\ authed = FALSE
    /\ sent = 0
    /\ rwriter = "orig"
    /\ out = [w \in {"orig", "redir"} |-> <<>>]
    /\ wclosed = [w \in {"orig", "redir"} |-> FALSE]
    /\ dropped = <<>>
    /\ writes = <<>>
    /\ logs = 0
    /\ first = TRUE
    /\ encRaw = FALSE
    /\ respMime = "application/json"
    /\ emitted = <<>>
    /\ hstate = "none"
    /\ cfgUrlPath = FALSE
    /\ callp = NoCall
    /\ reqInflight \in BadRequests \cup {GoodRequest}
    /\ wireFds = <<>>
    /\ replyFds = [w \in {"orig", "redir"} |-> <<>>]
    /\ fdsSent = <<>>
    /\ sbuf = <<>>
    /\ sfds = [any |-> TRUE, list |-> <<>>]
    /\ lwriter = "orig"
    /\ handler = <<>>
    /\ hkwargs = FALSE
    /\ invoked = <<>>
    /\ hargs = <<>>
    /\ events = <<>>

NextBad == ServeRecv \/ ServeEof \/ Invoke

SpecBad == InitBad /\ [][NextBad]_vars

(***************************************************************************)
(* C23.  The response to a request that fails parsing.                     *)
(***************************************************************************)
\* the response to a request that fails parsing has been written
ParseFailed == spc = "closed" /\ (sbuf \o reqInflight) \in BadRequests

\* the bytes written are a response of this status with a JSON body that
\* has an error field
IsErrorResponse(code, bytes) ==
    /\ IsPrefix(HTTP_RESPONSE(code) \o HTTP_JSON, bytes)
    /\ from_json(Drop(bytes, Len(HTTP_RESPONSE(code) \o HTTP_JSON))).ok
    /\ HasError(from_json(Drop(bytes, Len(HTTP_RESPONSE(code) \o HTTP_JSON))).val)

\* C23 (as stated): a request that fails parsing is answered with status
\* 400 and a JSON body that has an error field, and no handler is invoked.
C23_AsStated ==
    ParseFailed => IsErrorResponse(400, out["orig"]) /\ invoked = <<>>
(***************************************************************************)
(* Values as trees, for the codecs and for the arguments of handlers: k is *)
(* the Python type and v the content.  A string is a sequence of           *)
(* characters, a byte string a sequence of bytes, a mapping the sequence   *)
(* of its <<key, value>> entries in insertion order.                       *)
(***************************************************************************)
PyNone == [k |-> "none", v |-> 0]
PyBool(b) == [k |-> "bool", v |-> b]
PyInt(n) == [k |-> "int", v |-> n]
PyStr(s) == [k |-> "str", v |-> s]
PyBytes(b) == [k |-> "bytes", v |-> b]
PyList(l) == [k |-> "list", v |-> l]
PyDict(d) == [k |-> "dict", v |-> d]
\* msgpack.ExtType(code, data)
PyExt(code, data) == [k |-> "ext", v |-> <<code, data>>]

\* bool(obj)
Truthy(obj) ==
    CASE obj.k = "none" -> FALSE
      [] obj.k = "bool" -> obj.v
      [] obj.k = "int" -> obj.v # 0
      [] OTHER -> obj.v # <<>>

\* obj.get(key) of a mapping: <<>> stands for a missing key
DictGet(d, key) ==
    IF \E i \in 1..Len(d) : d[i][1] = key
    THEN d[CHOOSE i \in 1..Len(d) : d[i][1] = key][2]
    ELSE <<>>

\* the bytes of the model and the characters that b64encode writes for
\* each of them
Bytes == {"A", BadByte}
B64Of(b) == IF b = "A" THEN "QQ" ELSE "/w"

\* str(b64encode(obj), 'latin-1')
B64Encode(bs) == [i \in 1..Len(bs) |-> B64Of(bs[i])]

\* b64decode(d): [ok, val]; ok = FALSE is the binascii.Error for a string
\* that is no base64
B64Decode(str) ==
    IF \A i \in 1..Len(str) : \E b \in Bytes : B64Of(b) = str[i]
    THEN [ok |-> TRUE,
          val |-> PyBytes([i \in 1..Len(str) |->
                              CHOOSE b \in Bytes : B64Of(b) = str[i]])]
    ELSE [ok |-> FALSE, val |-> PyNone]

\* _enc of to_json: the default of json.dumps, called for a byte string
JsonEnc(obj) == PyDict(<< <<"__base64__", PyStr(B64Encode(obj.v))>> >>)

\* json.dumps(data, default=_enc): the JSON document as the tree of its
\* values, in which no byte string is left
RECURSIVE JsonDumps(_)
JsonDumps(data) ==
    CASE data.k = "bytes" -> JsonEnc(data)
      [] data.k = "list" -> PyList([i \in 1..Len(data.v) |-> JsonDumps(data.v[i])])
      [] data.k = "dict" ->
            PyDict([i \in 1..Len(data.v) |->
                       <<data.v[i][1], JsonDumps(data.v[i][2])>>])
      [] OTHER -> data

\* _dec of from_json, the object_hook of json.loads: [ok, val]; ok = FALSE
\* is the exception that decode(data) raises
JsonDec(obj) ==
    IF Len(obj.v) # 1 THEN [ok |-> TRUE, val |-> obj]
    ELSE IF DictGet(obj.v, "__base64__") # <<>>
              /\ Truthy(DictGet(obj.v, "__base64__"))
    THEN IF DictGet(obj.v, "__base64__").k = "str"
         THEN B64Decode(DictGet(obj.v, "__base64__").v)
         ELSE [ok |-> FALSE, val |-> PyNone]
    ELSE IF DictGet(obj.v, "__bytes__") # <<>>
              /\ Truthy(DictGet(obj.v, "__bytes__"))
    THEN IF DictGet(obj.v, "__bytes__").k = "str"
         THEN [ok |-> TRUE, val |-> PyBytes(DictGet(obj.v, "__bytes__").v)]
         ELSE [ok |-> FALSE, val |-> PyNone]
    ELSE [ok |-> TRUE, val |-> obj]

\* json.loads(jd, object_hook=_dec): the hook is called for every object,
\* the innermost first
RECURSIVE JsonLoads(_)
JsonLoads(doc) ==
    CASE doc.k = "list" ->
            [ok |-> \A i \in 1..Len(doc.v) : JsonLoads(doc.v[i]).ok,
             val |-> PyList([i \in 1..Len(doc.v) |-> JsonLoads(doc.v[i]).val])]
      [] doc.k = "dict" ->
            IF \A i \in 1..Len(doc.v) : JsonLoads(doc.v[i][2]).ok
            THEN JsonDec(PyDict([i \in 1..Len(doc.v) |->
                                <<doc.v[i][1], JsonLoads(doc.v[i][2]).val>>]))
            ELSE [ok |-> FALSE, val |-> PyNone]
      [] OTHER -> [ok |-> TRUE, val |-> doc]

\* msgpack packs the integers of a word of 64 bits, signed or unsigned;
\* the words of the model are IntBits wide
IntBits == 5

RECURSIVE Pow2(_)
Pow2(n) == IF n = 0 THEN 1 ELSE 2 * Pow2(n - 1)

IsNativeInt(n) == -Pow2(IntBits - 1) <= n /\ n < Pow2(IntBits)

\* b'%x' % obj
HexOf(n) == IF n < 0 THEN <<"-">> \o Digits(-n, 16) ELSE Digits(n, 16)

\* int(data, 16)
IntOfHex(data) ==
    IF data # <<>> /\ Head(data) = "-" THEN -ParseDigits(Tail(data), 16, 0)
    ELSE ParseDigits(data, 16, 0)

\* _to_exttype of to_msgpack: the default of msgpack.packb, called for an
\* integer that does not fit a word
ToExttype(obj) == PyExt(1, HexOf(obj.v))

\* msgpack.packb(data, default=_to_exttype): the message as the tree of
\* its values
RECURSIVE Packb(_)
Packb(data) ==
    CASE data.k = "int" -> IF IsNativeInt(data.v) THEN data ELSE ToExttype(data)
      [] data.k = "list" -> PyList([i \in 1..Len(data.v) |-> Packb(data.v[i])])
      [] data.k = "dict" ->
            PyDict([i \in 1..Len(data.v) |-> <<data.v[i][1], Packb(data.v[i][2])>>])
      [] OTHER -> data

\* _from_exttype of from_msgpack, the ext_hook of msgpack.unpackb
FromExttype(code, data) ==
    IF code = 1 THEN PyInt(IntOfHex(data)) ELSE PyExt(code, data)

\* msgpack.unpackb(d, ext_hook=_from_exttype)
RECURSIVE Unpackb(_)
Unpackb(msg) ==
    CASE msg.k = "ext" -> FromExttype(msg.v[1], msg.v[2])
      [] msg.k = "list" -> PyList([i \in 1..Len(msg.v) |-> Unpackb(msg.v[i])])
      [] msg.k = "dict" ->
            PyDict([i \in 1..Len(msg.v) |-> <<msg.v[i][1], Unpackb(msg.v[i][2])>>])
      [] OTHER -> msg

\* from_json(to_json(v)) and from_msgpack(to_msgpack(v)): [ok, val]
ViaJson(v) == JsonLoads(JsonDumps(v))
ViaMsgpack(v) == [ok |-> TRUE, val |-> Unpackb(Packb(v))]

\* through the codec of this name and back
ViaCodec(codec, v) == IF codec = "json" THEN ViaJson(v) ELSE ViaMsgpack(v)

(***************************************************************************)
(* SpecCodec: a value is encoded and decoded again, by each codec.         *)
(***************************************************************************)
\* null, booleans, integers inside and outside the word, strings and byte
\* strings
Scalars ==
    {PyNone, PyBool(TRUE), PyBool(FALSE)}
      \cup { PyInt(n) : n \in {0, -1, 7, Pow2(IntBits) - 1, Pow2(IntBits + 2),
                               -Pow2(IntBits - 1), -Pow2(IntBits + 2), 1000, -1000} }
      \cup { PyStr(str) : str \in {<<>>, <<"a">>, <<"QQ">>} }
      \cup { PyBytes(b) : b \in {<<>>, <<"A">>, <<"A", BadByte>>} }

\* what the lists and mappings of the model hold
Members ==
    {PyNone, PyInt(1000), PyInt(0), PyStr(<<"a">>), PyStr(<<"QQ">>),
     PyBytes(<<>>), PyBytes(<<"A">>)}

Keys == {"a", "error", "__base64__", "__bytes__"}

Flat ==
    {PyList(<<>>), PyDict(<<>>)}
      \cup { PyList(<<m>>) : m \in Members }
      \cup { PyDict(<< <<key, m>> >>) : key \in Keys, m \in Members }
      \cup { PyDict(<< <<"__base64__", PyStr(<<"QQ">>)>>, <<"a", m>> >>) : m \in Members }

Values ==
    Scalars \cup Flat
      \cup { PyList(<<PyInt(1), f>>) : f \in Flat }
      \cup { PyDict(<< <<"a", f>> >>) : f \in Flat }

NoResult == [done |-> FALSE, ok |-> FALSE, val |-> PyNone]

JsonRoundTrip ==
    /\ ~cjson.done
    /\ cjson' = [done |-> TRUE, ok |-> ViaJson(cval).ok, val |-> ViaJson(cval).val]
    /\ UNCHANGED <<cval, cmsgpack>>
    /\ UNCHANGED <<cliVars, reqVars, genVars, srvVars, lookVars, lifeVars, parVars,
                   hopVars, excVars, apiVars, kVars,
                   lateVars>>

MsgpackRoundTrip ==
    /\ ~cmsgpack.done
    /\ cmsgpack' = [done |-> TRUE, ok |-> TRUE, val |-> ViaMsgpack(cval).val]
    /\ UNCHANGED <<cval, cjson>>
    /\ UNCHANGED <<cliVars, reqVars, genVars, srvVars, lookVars, lifeVars, parVars,
                   hopVars, excVars, apiVars, kVars,
                   lateVars>>

InitCodec ==
    /\ cval \in Values
    /\ cjson = NoResult
    /\ cmsgpack = NoResult
    /\ IdleClient
    /\ IdleWorker
    /\ IdleLookup
    /\ IdleLife
    /\ IdlePar
    /\ IdleChain
    /\ IdleExc
    /\ IdleApi
    /\ IdleCall
    /\ IdleLate

NextCodec == JsonRoundTrip \/ MsgpackRoundTrip

SpecCodec == InitCodec /\ [][NextCodec]_vars

(***************************************************************************)
(* C28.  Decoding the encoding of a value.                                 *)
(***************************************************************************)
\* C28 (as stated): from_json(to_json(v)) = v and
\* from_msgpack(to_msgpack(v)) = v for every value built from null,
\* booleans, integers, strings, byte strings, lists and string-keyed
\* mappings.
C28_AsStated ==
    /\ cjson.done => cjson.ok /\ cjson.val = cval
    /\ cmsgpack.done => cmsgpack.ok /\ cmsgpack.val = cval
(***************************************************************************)
(* Coercion of arguments by the annotations of the handler.                *)
(***************************************************************************)
\* str.lower() on the letters of the model
Lower(c) ==
    CASE c = "T" -> "t" [] c = "R" -> "r" [] c = "U" -> "u" [] c = "E" -> "e"
      [] c = "Y" -> "y" [] c = "S" -> "s" [] c = "X" -> "x" [] c = "F" -> "f"
      [] OTHER -> c

StrLower(str) == [i \in 1..Len(str) |-> Lower(str[i])]

TRUE_STRINGS ==
    {<<"t", "r", "u", "e">>, <<"t">>, <<"y", "e", "s">>, <<"y">>, <<"1">>}

\* the letter of the prefix that int(str, base) accepts for this base
PrefixLetter(base) ==
    CASE base = 16 -> "x" [] base = 8 -> "o" [] base = 2 -> "b" [] OTHER -> ""

\* the digits of a literal of this base
IsDigitOf(c, base) == IsHexDigit(Lower(c)) /\ DigitVal(Lower(c)) < base

\* int(str, base) without its sign: the prefix of the base is accepted for
\* the bases 16, 8 and 2; ok = FALSE is the ValueError
IntOfUnsigned(str, base) ==
    LET hasPrefix == /\ base # 10
                     /\ Len(str) >= 2
                     /\ str[1] = "0"
                     /\ Lower(str[2]) = PrefixLetter(base)
        digits == IF hasPrefix THEN Drop(str, 2) ELSE str
    IN  IF digits # <<>> /\ \A i \in 1..Len(digits) : IsDigitOf(digits[i], base)
        THEN [ok |-> TRUE, val |-> ParseDigits(StrLower(digits), base, 0)]
        ELSE [ok |-> FALSE, val |-> 0]

\* int(str, base)
IntOfStr(str, base) ==
    IF str # <<>> /\ str[1] \in {"-", "+"}
    THEN [ok |-> IntOfUnsigned(Tail(str), base).ok,
          val |-> IF str[1] = "-" THEN -IntOfUnsigned(Tail(str), base).val
                  ELSE IntOfUnsigned(Tail(str), base).val]
    ELSE IntOfUnsigned(str, base)

Coerced(v) == [ok |-> TRUE, exc |-> "none", val |-> v]
CoerceFails(exc) == [ok |-> FALSE, exc |-> exc, val |-> PyNone]

\* Bool(value)
Bool(value) ==
    IF value.k = "bool" THEN value.v
    ELSE IF value.k = "str" THEN StrLower(value.v) \in TRUE_STRINGS
    ELSE Truthy(value)

\* every string is read in base 10
IntOfDecimal(str) ==
    IF IntOfStr(str, 10).ok THEN Coerced(PyInt(IntOfStr(str, 10).val))
    ELSE CoerceFails("ValueError")

\* the int rule of guarantee_type for a string
IntOfPrefixed(str) ==
    LET base == IF IsPrefixAt(<<"0", "x">>, str, 1) THEN 16
                ELSE IF IsPrefixAt(<<"0", "o">>, str, 1) THEN 8
                ELSE IF IsPrefixAt(<<"0", "b">>, str, 1) THEN 2
                ELSE 10
        r == IntOfStr(IF base = 10 THEN str ELSE Drop(str, 2), base)
    IN  IF r.ok THEN Coerced(PyInt(r.val)) ELSE CoerceFails("ValueError")


\* guarantee_type(rule, v) for the rules None, 'any', bool and int: [ok,
\* exc, val]
guarantee_type(rule, v) ==
    IF rule \in {"none", "any"} THEN Coerced(v)
    ELSE IF rule = "bool" THEN Coerced(PyBool(Bool(v)))
    ELSE \* int
         IF v.k = "bytes"
         THEN IF IsUtf8(v.v) THEN IntOfPrefixed(v.v)
              ELSE CoerceFails("UnicodeDecodeError")
         ELSE IF v.k = "str" THEN IntOfPrefixed(v.v)
         ELSE IF v.k = "int" THEN Coerced(v)
         ELSE IF v.k = "bool" THEN Coerced(PyInt(IF v.v THEN 1 ELSE 0))
         ELSE CoerceFails("TypeError")

\* the handlers of the model: api_echo(self, request_info, x, n) returns n
\* and the generator api_echoes yields x and then n; the parameter n has
\* the annotation of the call, x has none
Params == <<"self", "request_info", "x", "n">>

\* annotations.get(k) for the name of a parameter
AnnotationOf(tag, name) == IF name = "n" THEN tag ELSE "none"

\* the parameter at position i, counting from the first after self
ParamAtOffByOne(i) == IF i + 2 <= Len(Params) THEN Params[i + 2] ELSE ""

\* the parameter whose annotation _apply_annotations files under the
\* position i of args: annotations[i-2] = annotations[k], where i counts
\* the parameters from 0
ParamAt(i) == IF i + 3 <= Len(Params) THEN Params[i + 3] ELSE ""


\* the first of the values rs that failed, or the no-failure record
FirstFailure(rs) ==
    IF \A i \in 1..Len(rs) : rs[i].ok THEN Coerced(PyNone)
    ELSE rs[CHOOSE i \in 1..Len(rs) :
                 ~rs[i].ok /\ \A j \in 1..(i - 1) : rs[j].ok]

\* _apply_annotations(func, args, kwargs): [ok, exc, args, kwargs]
ApplyAnnotations(tag, args, kwargs) ==
    LET ra == [i \in 1..Len(args) |->
                  guarantee_type(AnnotationOf(tag, ParamAt(i - 1)), args[i])]
        rk == [i \in 1..Len(kwargs) |->
                  guarantee_type(AnnotationOf(tag, kwargs[i][1]), kwargs[i][2])]
    IN  [ok |-> FirstFailure(ra \o rk).ok,
         exc |-> FirstFailure(ra \o rk).exc,
         args |-> [i \in 1..Len(args) |-> ra[i].val],
         kwargs |-> [i \in 1..Len(kwargs) |-> <<kwargs[i][1], rk[i].val>>]]
(***************************************************************************)
(* SpecApi: one call of a convenience function, made through a connected   *)
(* client (_mk_rcfunc: call(), the worker, and back) and in loopback mode  *)
(* (_mk_lcfunc).                                                           *)
(***************************************************************************)
\* *args and **kwargs of the call
ArgsOf(c) ==
    CASE c.mode = "pos" -> <<c.x, c.n>>
      [] c.mode = "mixed" -> <<c.x>>
      [] OTHER -> <<>>

KwargsOf(c) ==
    CASE c.mode = "pos" -> <<>>
      [] c.mode = "mixed" -> << <<"n", c.n>> >>
      [] OTHER -> << <<"x", c.x>>, <<"n", c.n>> >>

\* the encoder and the decoder of a codec; the decoder gives [ok, val]
CodecEncode(codec, v) == IF codec = "json" THEN JsonDumps(v) ELSE Packb(v)
CodecDecode(codec, doc) ==
    IF codec = "json" THEN JsonLoads(doc) ELSE [ok |-> TRUE, val |-> Unpackb(doc)]

\* the entries of a mapping without the entry of this key
Without(d, key) == SelectSeq(d, LAMBDA en : en[1] # key)

\* the arguments <<x, n>> that the handler is invoked with
Bind(args, kwargs) ==
    << IF Len(args) >= 1 THEN args[1] ELSE DictGet(kwargs, "x"),
       IF Len(args) >= 2 THEN args[2] ELSE DictGet(kwargs, "n") >>

\* what the handler returns or yields for its arguments
ItemsOf(gen, seen) == IF gen THEN seen ELSE <<seen[2]>>

\* the position of the first None among the items, Len + 1 without one:
\* the wrapper of a generator returns there
FirstNone(items) ==
    IF \E i \in 1..Len(items) : items[i] = PyNone
    THEN CHOOSE i \in 1..Len(items) :
             items[i] = PyNone /\ \A j \in 1..(i - 1) : items[j] # PyNone
    ELSE Len(items) + 1

NoReply == [chunked |-> FALSE, docs |-> <<>>, terminated |-> FALSE]
NoOutcome == [raised |-> "none", items |-> <<>>]

\* the status of the response to a request whose arguments fail
\* _apply_annotations with this exception
CoerceStatus(exc) ==
    IF exc \in {"TypeError", "UnicodeDecodeError"} THEN 400 ELSE 500

\* call() up to the request's last byte: kwargs['_args'] = args, and the
\* payload is the encoding of kwargs
ApiSend ==
    /\ apc = "idle"
    /\ apc' = "sent"
    /\ awire' = CodecEncode(acall.codec,
                       PyDict(KwargsOf(acall) \o << <<"_args", PyList(ArgsOf(acall))>> >>))
    /\ UNCHANGED <<acall, aseen, astatus, areply, aout, lpc, lseen, lout>>
    /\ UNCHANGED <<cliVars, reqVars, genVars, srvVars, lookVars, lifeVars, parVars,
                   hopVars, excVars, codecVars, kVars,
                   lateVars>>

\* the worker with the body of the request decoded as body and the
\* arguments through _apply_annotations as r
ApiServed(body, r) ==
    IF ~body.ok \/ ~r.ok
    THEN /\ astatus' = IF ~body.ok THEN 500 ELSE CoerceStatus(r.exc)
         /\ aseen' = <<>>
         /\ areply' = NoReply
    ELSE /\ aseen' = Bind(r.args, r.kwargs)
         /\ IF acall.gen
            THEN LET items == ItemsOf(TRUE, Bind(r.args, r.kwargs))
                     k == FirstNone(items)
                 IN  /\ astatus' = IF k = 1 THEN 0 ELSE 200
                     /\ areply' = [chunked |-> TRUE,
                                   docs |-> [i \in 1..(k - 1) |->
                                                CodecEncode(acall.codec, items[i])],
                                   terminated |-> k > Len(items)]
            ELSE /\ astatus' = 200
                 /\ areply' = [chunked |-> FALSE,
                               docs |-> <<CodecEncode(acall.codec,
                                                 Bind(r.args, r.kwargs)[2])>>,
                               terminated |-> FALSE]

\* _handle_http_request for the request: the body is decoded, _args popped,
\* the annotations applied, the handler invoked and its result encoded
ApiServe ==
    /\ apc = "sent"
    /\ apc' = "replied"
    /\ LET body == CodecDecode(acall.codec, awire) IN
       ApiServed(body,
                 IF body.ok
                 THEN ApplyAnnotations(acall.tag,
                                       DictGet(body.val.v, "_args").v,
                                       Without(body.val.v, "_args"))
                 ELSE [ok |-> FALSE, exc |-> "ValueError", args |-> <<>>,
                       kwargs |-> <<>>])
    /\ UNCHANGED <<acall, awire, aout, lpc, lseen, lout>>
    /\ UNCHANGED <<cliVars, reqVars, genVars, srvVars, lookVars, lifeVars, parVars,
                   hopVars, excVars, codecVars, kVars,
                   lateVars>>

\* the decoded chunks ds that the caller's iteration yields, up to the
\* first that fails to decode
StreamOutcome(ds, terminated) ==
    IF \E i \in 1..Len(ds) : ~ds[i].ok
    THEN LET k == CHOOSE i \in 1..Len(ds) :
                      ~ds[i].ok /\ \A j \in 1..(i - 1) : ds[j].ok
         IN  [raised |-> "ValueError", items |-> [i \in 1..(k - 1) |-> ds[i].val]]
    ELSE [raised |-> IF terminated THEN "none" ELSE "IOError",
          items |-> [i \in 1..Len(ds) |-> ds[i].val]]

\* the end of call() for a reply of status 200 whose body decodes as d
UnaryOutcome(d) ==
    IF ~d.ok THEN [raised |-> "RuntimeError", items |-> <<>>]
    ELSE IF d.val.k = "dict" /\ DictGet(d.val.v, "error") # <<>>
    THEN [raised |-> "RuntimeError", items |-> <<>>]
    ELSE [raised |-> "none", items |-> <<d.val>>]

\* every result of a reply of status 200 is returned
UnaryOutcomeAny(d) ==
    IF ~d.ok THEN [raised |-> "RuntimeError", items |-> <<>>]
    ELSE [raised |-> "none", items |-> <<d.val>>]

\* call() from the head of the response to its end, and the iteration of
\* the caller over the chunks of a streamed response
ApiRecv ==
    /\ apc = "replied"
    /\ apc' = "done"
    /\ aout' =
         IF astatus = 400 THEN [raised |-> "ValueError", items |-> <<>>]
         ELSE IF astatus # 200 THEN [raised |-> "RuntimeError", items |-> <<>>]
         ELSE IF areply.chunked
         THEN StreamOutcome([i \in 1..Len(areply.docs) |->
                                CodecDecode(acall.codec, areply.docs[i])],
                            areply.terminated)
         ELSE UnaryOutcome(CodecDecode(acall.codec, areply.docs[1]))
    /\ UNCHANGED <<acall, awire, aseen, astatus, areply, lpc, lseen, lout>>
    /\ UNCHANGED <<cliVars, reqVars, genVars, srvVars, lookVars, lifeVars, parVars,
                   hopVars, excVars, codecVars, kVars,
                   lateVars>>

\* the convenience function of loopback mode with the arguments through
\* _apply_annotations as r
ApiLooped(r) ==
    IF ~r.ok
    THEN /\ lseen' = <<>>
         /\ lout' = [raised |-> r.exc, items |-> <<>>]
    ELSE /\ lseen' = Bind(r.args, r.kwargs)
         /\ lout' = [raised |-> "none",
                     items |-> ItemsOf(acall.gen, Bind(r.args, r.kwargs))]

ApiLoopback ==
    /\ lpc = "idle"
    /\ lpc' = "done"
    /\ ApiLooped(ApplyAnnotations(acall.tag, ArgsOf(acall), KwargsOf(acall)))
    /\ UNCHANGED <<acall, apc, awire, aseen, astatus, areply, aout>>
    /\ UNCHANGED <<cliVars, reqVars, genVars, srvVars, lookVars, lifeVars, parVars,
                   hopVars, excVars, codecVars, kVars,
                   lateVars>>

\* the strings given for the parameter n
NStrings ==
    { <<"1", "0">>, <<"0", "x", "1", "0">>, <<"0", "o", "1", "0">>,
      <<"0", "b", "1", "0">>, <<"0", "X", "1", "0">>, <<"-", "5">>,
      <<"0", "x">>, <<"0", "x", "f">>, <<"0", "b", "2">>,
      <<"e", "l", "e", "p", "h", "a", "n", "t">>, <<>>,
      <<"1">>, <<"t">>, <<"t", "r", "u", "e">>, <<"y">>, <<"y", "e", "s">>,
      <<"T">>, <<"T", "r", "u", "e">>, <<"Y", "E", "S">>,
      <<"n", "o">>, <<"0">>, <<"o", "n">> }

\* the values given for the parameter n
ApiN ==
    { PyStr(str) : str \in NStrings }
      \cup { PyInt(7), PyInt(1000), PyBool(TRUE), PyNone, PyList(<<>>),
             PyBytes(<<>>), PyBytes(<<"A">>), PyBytes(<<BadByte>>), PyDict(<<>>),
             PyDict(<< <<"error", PyStr(<<"a">>)>> >>) }

\* the values given for the parameter x
ApiX == {PyStr(<<"0", "x", "1", "0">>), PyInt(7), PyNone}

ApiCalls ==
    [tag : {"none", "any", "int", "bool"}, x : ApiX, n : ApiN,
     mode : {"pos", "mixed", "kw"}, gen : BOOLEAN, codec : {"json", "msgpack"}]

InitApi ==
    /\ acall \in ApiCalls
    /\ apc = "idle"
    /\ awire = PyNone
    /\ aseen = <<>>
    /\ astatus = 0
    /\ areply = NoReply
    /\ aout = NoOutcome
    /\ lpc = "idle"
    /\ lseen = <<>>
    /\ lout = NoOutcome
    /\ IdleClient
    /\ IdleWorker
    /\ IdleLookup
    /\ IdleLife
    /\ IdlePar
    /\ IdleChain
    /\ IdleExc
    /\ IdleCodec
    /\ IdleCall
    /\ IdleLate

NextApi == ApiSend \/ ApiServe \/ ApiRecv \/ ApiLoopback

SpecApi == InitApi /\ [][NextApi]_vars

(***************************************************************************)
(* C24.  An argument that cannot be coerced.                               *)
(***************************************************************************)
\* the worker has answered a call whose argument n, as the worker decoded
\* it, cannot be coerced to the type of its annotation
NotCoercible ==
    /\ apc \in {"replied", "done"}
    /\ CodecDecode(acall.codec, CodecEncode(acall.codec, acall.n)).ok
    /\ ~guarantee_type(acall.tag,
                       CodecDecode(acall.codec, CodecEncode(acall.codec, acall.n)).val).ok

\* C24 (as stated): a call whose argument cannot be coerced to the type of
\* its annotation is answered with status 400, the client raises
\* ValueError, and the handler is not invoked, for unary and for streaming
\* handlers.
C24_AsStated ==
    NotCoercible =>
        /\ astatus = 400
        /\ aseen = <<>>
        /\ apc = "done" => aout.raised = "ValueError"
(***************************************************************************)
(* C27.  The result through a connected client and in loopback mode.       *)
(***************************************************************************)
\* C27 (as stated): what a handler returns, or yields item by item, in
\* loopback mode is what a connected client gets from the same call.
C27_AsStated ==
    apc = "done" /\ lpc = "done" /\ lout.raised = "none" => aout = lout

(***************************************************************************)
(* C29.  Coercion of string arguments by the annotation.                   *)
(***************************************************************************)
\* the integers that the strings of the model are read as: with the prefix
\* 0x, 0o or 0b in base 16, 8 or 2, else in base 10
ReadsAs ==
    { << <<"1", "0">>, 10 >>, << <<"0", "x", "1", "0">>, 16 >>,
      << <<"0", "o", "1", "0">>, 8 >>, << <<"0", "b", "1", "0">>, 2 >>,
      << <<"-", "5">>, -5 >>, << <<"0", "x", "f">>, 15 >>,
      << <<"1">>, 1 >>, << <<"0">>, 0 >> }

\* the strings that are true
TrueSet ==
    { <<"1">>, <<"t">>, <<"t", "r", "u", "e">>, <<"y">>, <<"y", "e", "s">>,
      <<"T">>, <<"T", "r", "u", "e">>, <<"Y", "E", "S">> }

\* the handler was invoked with x as it was given and with the string n
\* coerced by the annotation; a string that is no integer did not reach a
\* handler whose parameter is an int
SeenAsClaimed(seen) ==
    CASE acall.tag = "int" ->
            IF \E p \in ReadsAs : p[1] = acall.n.v
            THEN \E p \in ReadsAs : p[1] = acall.n.v /\ seen = <<acall.x, PyInt(p[2])>>
            ELSE seen = <<>>
      [] acall.tag = "bool" -> seen = <<acall.x, PyBool(acall.n.v \in TrueSet)>>
      [] OTHER -> seen = <<acall.x, acall.n>>

\* C29: a string argument reaches the handler coerced by the annotation of
\* its parameter (int: read in base 16, 8 or 2 after the prefix 0x, 0o or
\* 0b, else in base 10; bool: true exactly for 1, t, true, y, yes in any
\* case; untagged or 'any': unchanged), given by position or by name,
\* through a connected client and in loopback mode.
C29_Coerced ==
    acall.n.k = "str" =>
        /\ lpc = "done" => SeenAsClaimed(lseen)
        /\ apc \in {"replied", "done"} => SeenAsClaimed(aseen)

\* the string '0x10' given by name for an int has reached the handler as
\* 16 in both modes, next to an untouched x
C29_Witness ==
    /\ apc = "done"
    /\ lpc = "done"
    /\ acall.tag = "int"
    /\ acall.mode = "kw"
    /\ acall.n = PyStr(<<"0", "x", "1", "0">>)
    /\ acall.x = PyStr(<<"0", "x", "1", "0">>)
    /\ aseen = <<acall.x, PyInt(16)>>
    /\ lseen = aseen
(***************************************************************************)
(* SpecCall: the connection attempts of call().  The client is a fresh     *)
(* one, a connected one or one in loopback mode; the worker listens or     *)
(* does not and may stop at any time, and a worker that connect() launches *)
(* starts to listen at some time.  What follows the connection is in Spec.  *)
(***************************************************************************)
MaxTries == 3   \* the largest call_max_tries of the calls of the model

\* the retry that call() gives connect()
CallConnectRetry == 1

Clients ==
    { [url |-> FALSE, is_client |-> TRUE],     \* fresh
      [url |-> TRUE, is_client |-> TRUE],      \* after connect()
      [url |-> FALSE, is_client |-> FALSE] }   \* after loopback()

\* ping() and quitquitquit() call with call_max_tries=0
Requests ==
    { [fn |-> f, retries |-> 0] : f \in {"ping", "quitquitquit"} }
      \cup { [fn |-> "call", retries |-> r] : r \in 0..MaxTries }

\* call() goes on without a URL
NeedsUrlNever(client) == FALSE

\* call() raises NotRunning
NeedsUrl(client) == ~client.url

\* the loop of call() raises one attempt later
LastAttemptLate(attempt, retries) == attempt > retries

\* the loop of call() raises after a failed attempt
LastAttempt(attempt, retries) == attempt >= retries

\* ping(), quitquitquit() or call() up to the loop of call()
KCall ==
    /\ kpc = "idle"
    /\ IF kreq.fn # "call" /\ ~kclient.is_client
       THEN \* the service is this object: no call is made
            /\ kpc' = "done"
            /\ kout' = "local"
            /\ UNCHANGED kattempt
       ELSE IF NeedsUrl(kclient)
       THEN /\ kpc' = "done"
            /\ kout' = "NotRunning"
            /\ UNCHANGED kattempt
       ELSE /\ kpc' = "loop"
            /\ kattempt' = 0
            /\ UNCHANGED kout
    /\ UNCHANGED <<kclient, kreq, kattempts, kconnects, klaunched, kup, kconn>>
    /\ UNCHANGED <<cliVars, reqVars, genVars, srvVars, lookVars, lifeVars, parVars,
                   hopVars, excVars, codecVars, apiVars,
                   lateVars>>

\* one pass of the loop of call(): _url_connect, and after a failure the
\* raise or the call of connect()
KAttempt ==
    /\ kpc = "loop"
    /\ kattempts' = Append(kattempts, IF kup.listening THEN "ok" ELSE "refused")
    /\ IF kup.listening
       THEN /\ kpc' = "done"
            /\ kout' = "connected"
            /\ UNCHANGED <<kconnects, kconn>>
       ELSE IF LastAttempt(kattempt, kreq.retries)
       THEN /\ kpc' = "done"
            /\ kout' = "OSError"
            /\ UNCHANGED <<kconnects, kconn>>
       ELSE /\ kpc' = "connect"
            /\ kconnects' = kconnects + 1
            /\ kconn' = [tried |-> 0, auto |-> kreq.retries > 0, probes |-> 0]
            /\ UNCHANGED kout
    /\ UNCHANGED <<kclient, kreq, kattempt, klaunched, kup>>
    /\ UNCHANGED <<cliVars, reqVars, genVars, srvVars, lookVars, lifeVars, parVars,
                   hopVars, excVars, codecVars, apiVars,
                   lateVars>>

\* one pass of the loop of connect(): the probe, which is a call with
\* call_max_tries=0; after a failed probe the launch of a worker if
\* auto_start is set; NotRunning after the last pass
KConnectTry ==
    /\ kpc = "connect"
    /\ IF kup.listening
       THEN \* pong: connect() returns, call() goes to its next attempt
            /\ kpc' = "loop"
            /\ kattempt' = kattempt + 1
            /\ kconn' = [kconn EXCEPT !.probes = @ + 1]
            /\ UNCHANGED <<klaunched, kup, kout>>
       ELSE /\ klaunched' = IF kconn.auto THEN klaunched + 1 ELSE klaunched
            /\ kup' = IF kconn.auto THEN [kup EXCEPT !.starting = @ + 1] ELSE kup
            /\ kconn' = [tried |-> kconn.tried + 1, auto |-> FALSE,
                         probes |-> kconn.probes + 1]
            /\ IF kconn.tried + 1 > CallConnectRetry
               THEN /\ kpc' = "done"
                    /\ kout' = "NotRunning"
               ELSE UNCHANGED <<kpc, kout>>
            /\ UNCHANGED kattempt
    /\ UNCHANGED <<kclient, kreq, kattempts, kconnects>>
    /\ UNCHANGED <<cliVars, reqVars, genVars, srvVars, lookVars, lifeVars, parVars,
                   hopVars, excVars, codecVars, apiVars,
                   lateVars>>

\* a worker that was launched starts to listen
KWorkerUp ==
    /\ kup.starting > 0
    /\ kup' = [listening |-> TRUE, starting |-> kup.starting - 1]
    /\ UNCHANGED <<kclient, kreq, kpc, kattempt, kattempts, kconnects, klaunched,
                   kconn, kout>>
    /\ UNCHANGED <<cliVars, reqVars, genVars, srvVars, lookVars, lifeVars, parVars,
                   hopVars, excVars, codecVars, apiVars,
                   lateVars>>

\* the worker stops while a call is under way
KWorkerDown ==
    /\ kpc \in {"loop", "connect"}
    /\ kup.listening
    /\ kup' = [kup EXCEPT !.listening = FALSE]
    /\ UNCHANGED <<kclient, kreq, kpc, kattempt, kattempts, kconnects, klaunched,
                   kconn, kout>>
    /\ UNCHANGED <<cliVars, reqVars, genVars, srvVars, lookVars, lifeVars, parVars,
                   hopVars, excVars, codecVars, apiVars,
                   lateVars>>

InitCall ==
    /\ kclient \in Clients
    /\ kreq \in Requests
    /\ kpc = "idle"
    /\ kattempt = 0
    /\ kattempts = <<>>
    /\ kconnects = 0
    /\ klaunched = 0
    /\ kup \in [listening : BOOLEAN, starting : {0}]
    /\ kconn = [tried |-> 0, auto |-> FALSE, probes |-> 0]
    /\ kout = "none"
    /\ IdleClient
    /\ IdleWorker
    /\ IdleLookup
    /\ IdleLife
    /\ IdlePar
    /\ IdleChain
    /\ IdleExc
    /\ IdleCodec
    /\ IdleApi
    /\ IdleLate

NextCall == KCall \/ KAttempt \/ KConnectTry \/ KWorkerUp \/ KWorkerDown

SpecCall == InitCall /\ [][NextCall]_vars

Fresh == kclient = [url |-> FALSE, is_client |-> TRUE]

\* C26: on a client on which neither connect() nor loopback() was called
\* every call, ping included, raises NotRunning; no connection is
\* attempted and no worker is launched.
C26_NotRunning ==
    Fresh =>
        /\ kattempts = <<>>
        /\ kconnects = 0
        /\ klaunched = 0
        /\ kpc = "done" => kout = "NotRunning"

\* ping() on a fresh client has raised NotRunning
C26_Witness ==
    /\ Fresh
    /\ kreq.fn = "ping"
    /\ kpc = "done"
    /\ kout = "NotRunning"

(***************************************************************************)
(* The descriptors of a request that is received in several reads (Spec).  *)
(* _http11 binds the descriptor list anew on every read, and               *)
(* _recv_data_and_fds returns the descriptors of that one read only.       *)
(***************************************************************************)
\* a read of a request on a local-domain connection of which an earlier
\* read has left a part in the buffer
LaterRead ==
    /\ spc = "recv"
    /\ sbuf # <<>>
    /\ sbuf' # sbuf
    /\ callp # NoCall
    /\ callp.unix

\* C30 as stated: when a request on a local-domain connection takes more
\* than one read, every read after the first leaves the descriptors that
\* the earlier reads have collected at the head of the list, in the order
\* of their arrival, so the list that the dispatcher gets holds them all.
C30_AsStated ==
    [][LaterRead => IsPrefixAt(sfds.list, sfds'.list, 1)]_vars

(***************************************************************************)
(* SpecCutter: the chunk cutter on its own.  The package holds two         *)
(* RPCKitten classes: the one of kettlingar/rpckitten.py and the one of    *)
(* kettlingar/__init__.py, which "from kettlingar import RPCKitten" gives; *)
(* each has its own _http11_chunk.  The cutter is given any buffer, and    *)
(* again after each further byte has been put at the end of a buffer of    *)
(* which it has cut nothing.                                               *)
(***************************************************************************)
MaxCut == 6         \* longest buffer given to the cutter

CutAtoms == {"0", "1", CR, LF, "x"}

Buffers(n) == UNION { [1..k -> CutAtoms] : k \in 0..n }

Kittens == {"rpckitten", "__init__"}

NoCut == [done |-> FALSE, found |-> FALSE, chunk |-> <<>>, rest |-> <<>>]

\* _http11_chunk of kettlingar/__init__.py: 'if len(data) >= ln', and the
\* slices data[:ln] and data[ln+2:]
Http11ChunkOfInit(buf) ==
    LET i == Index(<<CR, LF>>, buf)
        ln == Take(buf, i - 1)
        data == Drop(buf, i + 1)
        none == [found |-> FALSE, chunk |-> <<>>, rest |-> buf]
    IN  IF i = 0 \/ ~IsHexNumber(ln) THEN none
        ELSE LET n == ParseDigits(ln, 16, 0) IN
             IF Len(data) >= n
             THEN [found |-> TRUE, chunk |-> Take(data, n), rest |-> Drop(data, n + 2)]
             ELSE none

\* self._http11_chunk of the RPCKitten of the module in use
CutterOf(rev, buf) ==
    IF rev = "rpckitten" THEN Http11Chunk(buf) ELSE Http11ChunkOfInit(buf)

\* chunk, buffer = self._http11_chunk(buffer)
Cut ==
    /\ qrev # "none"
    /\ ~qcut.done
    /\ LET c == CutterOf(qrev, qbuffer) IN
         qcut' = [done |-> TRUE, found |-> c.found, chunk |-> c.chunk,
                  rest |-> c.rest]
    /\ UNCHANGED <<qbuffer, qrev>>
    /\ UNCHANGED <<notLate, headVars, connVars, quitVars, lisVars, cfgVars>>

\* no chunk was cut: buffer += await reader.read(...), one byte of it
CutMore ==
    /\ qrev # "none"
    /\ qcut.done
    /\ ~qcut.found
    /\ Len(qbuffer) < MaxCut
    /\ \E a \in CutAtoms : qbuffer' = Append(qcut.rest, a)
    /\ qcut' = NoCut
    /\ UNCHANGED qrev
    /\ UNCHANGED <<notLate, headVars, connVars, quitVars, lisVars, cfgVars>>

InitCutter ==
    /\ qbuffer \in Buffers(MaxCut)
    /\ qrev \in Kittens
    /\ qcut = NoCut
    /\ IdleQuit
    /\ IdleHead
    /\ IdleConn
    /\ IdleListen
    /\ IdleConfig
    /\ IdleClient
    /\ IdleWorker
    /\ IdleLookup
    /\ IdleLife
    /\ IdlePar
    /\ IdleChain
    /\ IdleExc
    /\ IdleCodec
    /\ IdleApi
    /\ IdleCall

NextCutter == Cut \/ CutMore

SpecCutter == InitCutter /\ [][NextCutter]_vars

\* the buffer holds a whole chunk: the line of the length ln in hexadecimal
\* digits, and after its CRLF at least ln + 2 bytes
HoldsWholeChunk(buf) ==
    LET i == Index(<<CR, LF>>, buf) IN
        /\ i > 0
        /\ IsHexNumber(Take(buf, i - 1))
        /\ Len(buf) - (i + 1) >= ParseDigits(Take(buf, i - 1), 16, 0) + 2

\* C40 as stated: the cutter returns a chunk only of a buffer that holds
\* the whole chunk, trailer included, and otherwise returns no chunk and
\* the buffer as it was given.
C40_AsStated ==
    (qrev # "none" /\ qcut.done) =>
        IF qcut.found THEN HoldsWholeChunk(qbuffer) ELSE qcut.rest = qbuffer

(***************************************************************************)
(* SpecRead: _http11 with its two timers.  _serve_http runs it to read a   *)
(* request and call() runs it to read the reply.  The peer writes its      *)
(* message in pieces at any times; the transport feeds what has arrived    *)
(* to the StreamReader; each read of _http11 takes what the StreamReader   *)
(* holds.  The clock counts seconds; a timer that is due runs before the   *)
(* clock moves on.  A closed transport feeds nothing more, and a read of   *)
(* an empty StreamReader of a closed transport gives no data.              *)
(***************************************************************************)
WorkerHttpRequestTimeout1 == 1
WorkerHttpRequestTimeout2 == 15

MaxTime == 16       \* the clock stops here

\* a request with a body of n bytes, its lines ended by eol
RequestHead(eol, n) ==
    <<"POST /pub HTTP/1.1">> \o eol \o <<"Content-Length: ">> \o Digits(n, 10)
        \o eol \o eol

ReadBodies == { <<"a">>, <<"a", "b">>, <<LF, "a">> }

\* a request with a header line that has no ': '
BadHeaderRequest ==
    [eol |-> <<LF>>, body |-> <<>>,
     bytes |-> <<"POST /pub HTTP/1.1", LF, "NoColonHere", LF, LF>>]

\* the reply of a worker to a call: no Content-Length, lines ended by "\n"
ReplyMessage ==
    [eol |-> <<LF>>, body |-> <<"7", LF>>,
     bytes |-> <<"HTTP/1.1 200 OK", LF, "Content-Type: application/json", LF,
                 "Connection: close", LF, LF, "7", LF>>]

Messages(role) ==
    IF role = "client" THEN {ReplyMessage}
    ELSE { [eol |-> l, body |-> b, bytes |-> RequestHead(l, Len(b)) \o b] :
             l \in {<<LF>>, <<CR, LF>>}, b \in ReadBodies }
           \cup {BadHeaderRequest}

\* the peer writes some more of its message
PeerWrite ==
    /\ hpc = "recv"
    /\ hclosedBy = "none"
    /\ hpeer # <<>>
    /\ \E k \in 1..Len(hpeer) :
         /\ hinflight' = hinflight \o Take(hpeer, k)
         /\ hpeer' = Drop(hpeer, k)
    /\ UNCHANGED <<hrole, hsent, hfed, hrequest, hnow, hto1, hto2, hclosedBy,
                   hpc, hbody, hfires>>
    /\ UNCHANGED <<notLate, cutVars, connVars, quitVars, lisVars, cfgVars>>

\* the transport hands the bytes that have arrived to the StreamReader
FeedData ==
    /\ hclosedBy = "none"
    /\ hinflight # <<>>
    /\ hfed' = hfed \o hinflight
    /\ hinflight' = <<>>
    /\ UNCHANGED <<hrole, hsent, hpeer, hrequest, hnow, hto1, hto2, hclosedBy,
                   hpc, hbody, hfires>>
    /\ UNCHANGED <<notLate, cutVars, connVars, quitVars, lisVars, cfgVars>>

\* a cancel() that leaves the timer armed
NeverCancelled(timer) == timer

\* timer.cancel()
Cancelled(timer) == IF timer = "armed" THEN "cancelled" ELSE timer

\* _http11 behind its loop: to2.cancel(), then the two raises and the
\* return of request[hend+2:]
Http11End(request, h, want) ==
    /\ hto2' = Cancelled(hto2)
    /\ IF ~h.found \/ want # 0
       THEN hpc' = "raised" /\ hbody' = <<>>
       ELSE hpc' = "returned" /\ hbody' = h.body

\* one pass of the loop of _http11 that has read new_data
Http11Loop(request, h, want) ==
    IF Len(request) > WorkerHttpRequestMaxSize \/ (h.found /\ ~HeadersOk(h.hlines))
    THEN \* ValueError: the timers stay as they are
         hpc' = "raised" /\ hbody' = <<>> /\ UNCHANGED <<hto1, hto2>>
    ELSE /\ hto1' = IF h.found THEN Cancelled(hto1) ELSE hto1
         /\ IF want > 0
            THEN UNCHANGED <<hpc, hbody, hto2>>
            ELSE Http11End(request, h, want)

\* new_data, fds = await self._recv_data_and_fds(reader), and what follows
Http11Read ==
    /\ hpc = "recv"
    /\ hfed # <<>> \/ hclosedBy # "none"
    /\ hrequest' = hrequest \o hfed
    /\ hfed' = <<>>
    /\ IF hfed = <<>>
       THEN \* if not new_data: break
            /\ Http11End(hrequest, ParseHead(hrequest), WantBytes(hrequest))
            /\ UNCHANGED hto1
       ELSE Http11Loop(hrequest \o hfed, ParseHead(hrequest \o hfed),
                       WantBytes(hrequest \o hfed))
    /\ UNCHANGED <<hrole, hsent, hpeer, hinflight, hnow, hclosedBy, hfires>>
    /\ UNCHANGED <<notLate, cutVars, connVars, quitVars, lisVars, cfgVars>>

\* the request has been handed on by _http11
HandedOn == hpc \in {"returned", "dispatched"}

\* the header block is in these bytes and its lines parse
HeadParsed(request) ==
    ParseHead(request).found /\ HeadersOk(ParseHead(request).hlines)

\* what _closer finds when it runs: whether it is the one that closes the
\* writer, whether the bytes the timer waits for had arrived, and whether
\* _http11 had read them
FireRecord(t, arrived) ==
    [timer |-> t,
     closes |-> hclosedBy = "none",
     received |-> IF t = 1 THEN HeadParsed(arrived)
                  ELSE HeadParsed(arrived) /\ WantBytes(arrived) <= 0,
     read |-> IF t = 1 THEN HeadParsed(hrequest) ELSE HandedOn]

\* _closer, called by to1
Fire1 ==
    /\ hto1 = "armed"
    /\ hnow >= WorkerHttpRequestTimeout1
    /\ hto1' = "fired"
    /\ hclosedBy' = IF hclosedBy = "none" THEN "to1" ELSE hclosedBy
    /\ hinflight' = <<>>
    /\ hfires' = Append(hfires, FireRecord(1, hrequest \o hfed))
    /\ UNCHANGED <<hrole, hsent, hpeer, hfed, hrequest, hnow, hto2, hpc, hbody>>
    /\ UNCHANGED <<notLate, cutVars, connVars, quitVars, lisVars, cfgVars>>

\* _closer, called by to2
Fire2 ==
    /\ hto2 = "armed"
    /\ hnow >= WorkerHttpRequestTimeout2
    /\ hto2' = "fired"
    /\ hclosedBy' = IF hclosedBy = "none" THEN "to2" ELSE hclosedBy
    /\ hinflight' = <<>>
    /\ hfires' = Append(hfires, FireRecord(2, hrequest \o hfed))
    /\ UNCHANGED <<hrole, hsent, hpeer, hfed, hrequest, hnow, hto1, hpc, hbody>>
    /\ UNCHANGED <<notLate, cutVars, connVars, quitVars, lisVars, cfgVars>>

\* a second passes; the callbacks that are due have run
Tick ==
    /\ hnow < MaxTime
    /\ hpc = "recv" \/ hto1 = "armed" \/ hto2 = "armed"
    /\ hto1 = "armed" => hnow < WorkerHttpRequestTimeout1
    /\ hto2 = "armed" => hnow < WorkerHttpRequestTimeout2
    /\ hnow' = hnow + 1
    /\ UNCHANGED <<hrole, hsent, hpeer, hinflight, hfed, hrequest, hto1, hto2,
                   hclosedBy, hpc, hbody, hfires>>
    /\ UNCHANGED <<notLate, cutVars, connVars, quitVars, lisVars, cfgVars>>

\* _serve_http behind _http11: the request is dispatched or the error is
\* answered, and the finally closes the writer
ServeClose ==
    /\ hrole = "worker"
    /\ hpc \in {"returned", "raised"}
    /\ hpc' = IF hpc = "returned" THEN "dispatched" ELSE "failed"
    /\ hclosedBy' = IF hclosedBy = "none" THEN "serve" ELSE hclosedBy
    /\ hinflight' = <<>>
    /\ UNCHANGED <<hrole, hsent, hpeer, hfed, hrequest, hnow, hto1, hto2, hbody,
                   hfires>>
    /\ UNCHANGED <<notLate, cutVars, connVars, quitVars, lisVars, cfgVars>>

InitRead ==
    /\ hrole \in {"worker", "client"}
    /\ hsent \in Messages(hrole)
    /\ hpeer = hsent.bytes
    /\ hinflight = <<>>
    /\ hfed = <<>>
    /\ hrequest = <<>>
    /\ hnow = 0
    /\ hto1 = "armed"
    /\ hto2 = "armed"
    /\ hclosedBy = "none"
    /\ hpc = "recv"
    /\ hbody = <<>>
    /\ hfires = <<>>
    /\ IdleQuit
    /\ IdleCut
    /\ IdleConn
    /\ IdleListen
    /\ IdleConfig
    /\ IdleClient
    /\ IdleWorker
    /\ IdleLookup
    /\ IdleLife
    /\ IdlePar
    /\ IdleChain
    /\ IdleExc
    /\ IdleCodec
    /\ IdleApi
    /\ IdleCall

NextRead ==
    PeerWrite \/ FeedData \/ Http11Read \/ Fire1 \/ Fire2 \/ Tick \/ ServeClose

SpecRead == InitRead /\ [][NextRead]_vars

(***************************************************************************)
(* C32, C33, C36.  The timers of _http11 and the body that it returns.     *)
(***************************************************************************)
\* C32 as stated: the timers of _http11 never close the connection of a
\* call that waits for its reply, and the reading of the reply does not
\* fail, however long the worker takes to write it.
C32_AsStated ==
    hrole = "client" =>
        /\ hclosedBy \notin {"to1", "to2"}
        /\ hpc # "raised"

\* C33: on the worker, a timer that runs before the bytes it waits for
\* have arrived (the header block for T1, the whole request for T2) leaves
\* the connection closed and the request is never handed on; T1 is not
\* armed once the header block is parsed and neither timer once the
\* request is read; and a timer never closes the connection of a request
\* that had been read when the timer ran.
C33_TimersBound ==
    hrole = "worker" =>
        /\ \A i \in 1..Len(hfires) :
             /\ ~hfires[i].received => hclosedBy # "none" /\ ~HandedOn
             /\ hfires[i].closes => ~hfires[i].read
        /\ HeadParsed(hrequest) => hto1 # "armed"
        /\ HandedOn => hto2 # "armed"

\* T2 has run for a request whose header block came in time and whose body
\* did not
C33_Witness ==
    /\ hrole = "worker"
    /\ hsent.body = <<"a", "b">>
    /\ hto1 = "cancelled"
    /\ Len(hfires) = 1
    /\ hfires[1].timer = 2
    /\ hfires[1].closes
    /\ ~hfires[1].received
    /\ hclosedBy = "to2"
    /\ hpc = "failed"

\* C36 as stated: the body that _http11 hands on for a request with
\* Content-Length: n is the n bytes behind the empty line, whether the
\* lines of the head end in CRLF or in LF.
C36_AsStated ==
    (hrole = "worker" /\ HandedOn) => hbody = hsent.body

(***************************************************************************)
(* SpecConn: the calls that one connected client makes one after the       *)
(* other, with ping() among them: which connection _url_connect opens,     *)
(* and where the request is written.  The listeners of the worker come     *)
(* and go at any time.  What the reply of a request is does not matter    *)
(* here: it is any status, or the connection fails before the reply.       *)
(***************************************************************************)
MaxCalls == 3       \* calls that the client makes

\* ping() calls with call_max_tries=0; the default of call_max_tries is 2
ConnRequests ==
    { [fn |-> "ping", retries |-> 0, allow |-> a] : a \in BOOLEAN }
      \cup { [fn |-> "call", retries |-> r, allow |-> a] :
               r \in {0, 2}, a \in BOOLEAN }

\* the worker listens on both sockets, on one of them, or is down
Listeners(cfg) ==
    { l \in [unix : BOOLEAN, tcp : BOOLEAN] : l.tcp => cfg.use_tcp }

ReplyOutcomes == {"200", "404", "500", "reset"}

\* allow_unix without the test of _peeraddr
UnixAllowedAlways(allow, peer, cfg) == allow

\* allow_unix &= bool(self._peeraddr or not self.config.worker_use_tcp)
UnixAllowed(allow, peer, cfg) == allow /\ (peer # "none" \/ ~cfg.use_tcp)

\* _url_connect: [conn, peer, tries]: the connection opened ("none" when
\* the TCP connection fails too), _peeraddr afterwards, and the
\* connections tried
UrlConnect(allow, peer, cfg, listen) ==
    LET au == UnixAllowed(allow, peer, cfg) IN
    IF au /\ listen.unix
    THEN [conn |-> "unix", peer |-> "unix", tries |-> <<"unix">>]
    ELSE [conn |-> IF listen.tcp THEN "tcp" ELSE "none",
          peer |-> IF listen.tcp THEN "tcp" ELSE IF au THEN "unix" ELSE peer,
          tries |-> (IF au THEN <<"unix">> ELSE <<>>) \o <<"tcp">>]

\* the record of the connections that one _url_connect has tried
LegsOf(r, allow, nested) ==
    [i \in 1..Len(r.tries) |->
        [t |-> r.tries[i],
         ok |-> r.conn = r.tries[i] /\ i = Len(r.tries),
         first |-> i = 1,
         allow |-> allow,
         nested |-> nested,
         opened |-> uhist.opened,
         unix |-> uhist.unix]]

\* the history after a _url_connect
HistAfter(r) ==
    [uhist EXCEPT !.opened = @ \/ r.conn # "none",
                  !.unix = @ \/ r.conn = "unix"]

\* a reply that sends call() back into its loop
AfterReplyRetry(o) == IF o = "reset" THEN "loop" ELSE "idle"

\* call() behind the request: it returns or raises
AfterReply(o) == "idle"

\* call() or ping() up to the loop of call(); ping() sets _peeraddr to None
UCall ==
    /\ upc = "idle"
    /\ uhist.n < MaxCalls
    /\ \E r \in ConnRequests :
         /\ ureq' = r
         /\ upeer' = IF r.fn = "ping" THEN "none" ELSE upeer
         /\ uhist' = [uhist EXCEPT !.n = @ + 1,
                                   !.opened = IF r.fn = "ping" THEN FALSE ELSE @]
    /\ upc' = "loop"
    /\ uattempt' = 0
    /\ ulegs' = <<>>
    /\ uwritten' = <<>>
    /\ uconnects' = 0
    /\ uout' = "none"
    /\ UNCHANGED <<ucfg, ulisten, uconn>>
    /\ UNCHANGED <<notLate, cutVars, headVars, quitVars, lisVars, cfgVars>>

\* one pass of the loop of call(): _url_connect; after it the request is
\* written to the connection; after a failure the raise or connect()
UAttempt ==
    /\ upc = "loop"
    /\ LET r == UrlConnect(ureq.allow, upeer, ucfg, ulisten) IN
         /\ upeer' = r.peer
         /\ ulegs' = ulegs \o LegsOf(r, ureq.allow, FALSE)
         /\ uhist' = HistAfter(r)
         /\ IF r.conn # "none"
            THEN /\ upc' = "sent"
                 /\ uwritten' = Append(uwritten,
                        [t |-> r.conn, legs |-> Len(ulegs) + Len(r.tries),
                         connects |-> uconnects])
                 /\ UNCHANGED <<uconnects, uconn, uout>>
            ELSE IF LastAttempt(uattempt, ureq.retries)
            THEN /\ upc' = "idle"
                 /\ uout' = "OSError"
                 /\ UNCHANGED <<uwritten, uconnects, uconn>>
            ELSE /\ upc' = "connect"
                 /\ uconnects' = uconnects + 1
                 /\ uconn' = [tried |-> 0, auto |-> ureq.retries > 0]
                 /\ UNCHANGED <<uwritten, uout>>
    /\ UNCHANGED <<ucfg, ulisten, ureq, uattempt>>
    /\ UNCHANGED <<notLate, cutVars, headVars, quitVars, lisVars, cfgVars>>

\* one pass of the loop of connect(): call('ping', call_max_tries=0) on a
\* connection of its own
UConnect ==
    /\ upc = "connect"
    /\ LET r == UrlConnect(TRUE, upeer, ucfg, ulisten) IN
         /\ upeer' = r.peer
         /\ ulegs' = ulegs \o LegsOf(r, TRUE, TRUE)
         /\ uhist' = HistAfter(r)
         /\ IF r.conn # "none"
            THEN \* pong: connect() returns
                 /\ upc' = "loop"
                 /\ uattempt' = uattempt + 1
                 /\ UNCHANGED <<uconn, uout>>
            ELSE /\ uconn' = [tried |-> uconn.tried + 1, auto |-> FALSE]
                 /\ UNCHANGED uattempt
                 /\ IF uconn.tried + 1 > CallConnectRetry
                    THEN upc' = "idle" /\ uout' = "NotRunning"
                    ELSE UNCHANGED <<upc, uout>>
    /\ UNCHANGED <<ucfg, ulisten, ureq, uwritten, uconnects>>
    /\ UNCHANGED <<notLate, cutVars, headVars, quitVars, lisVars, cfgVars>>

\* the reply, or the failure of the connection, behind the request
UReply ==
    /\ upc = "sent"
    /\ \E o \in ReplyOutcomes :
         /\ uout' = o
         /\ upc' = AfterReply(o)
    /\ UNCHANGED <<ucfg, ulisten, upeer, ureq, uattempt, uconn, ulegs, uwritten,
                   uconnects, uhist>>
    /\ UNCHANGED <<notLate, cutVars, headVars, quitVars, lisVars, cfgVars>>

\* the worker stops, or a worker starts to listen
UWorker ==
    /\ \E l \in Listeners(ucfg) : l # ulisten /\ ulisten' = l
    /\ UNCHANGED <<ucfg, upeer, ureq, upc, uattempt, uconn, ulegs, uwritten,
                   uconnects, uhist, uout>>
    /\ UNCHANGED <<notLate, cutVars, headVars, quitVars, lisVars, cfgVars>>

InitConn ==
    /\ ucfg \in [use_tcp : BOOLEAN]
    /\ ulisten \in Listeners(ucfg)
    /\ upeer = "none"
    /\ ureq = [fn |-> "none", retries |-> 0, allow |-> TRUE]
    /\ upc = "idle"
    /\ uattempt = 0
    /\ uconn = [tried |-> 0, auto |-> FALSE]
    /\ ulegs = <<>>
    /\ uwritten = <<>>
    /\ uconnects = 0
    /\ uhist = [opened |-> FALSE, unix |-> FALSE, n |-> 0]
    /\ uout = "none"
    /\ IdleCut
    /\ IdleQuit
    /\ IdleHead
    /\ IdleListen
    /\ IdleConfig
    /\ IdleClient
    /\ IdleWorker
    /\ IdleLookup
    /\ IdleLife
    /\ IdlePar
    /\ IdleChain
    /\ IdleExc
    /\ IdleCodec
    /\ IdleApi
    /\ IdleCall

NextConn == UCall \/ UAttempt \/ UConnect \/ UReply \/ UWorker

SpecConn == InitConn /\ [][NextConn]_vars

(***************************************************************************)
(* C34.  The request of a call is written once.                            *)
(***************************************************************************)
\* C34: the request of a call is written to at most one connection, after
\* every connection attempt and every connect() of the call, of which
\* there are at most call_max_tries; once it is written no reply and no
\* failure makes call() connect or write again.
C34_WrittenOnce ==
    /\ Len(uwritten) <= 1
    /\ uconnects <= ureq.retries
    /\ uwritten # <<>> =>
         /\ upc \in {"sent", "idle"}
         /\ uwritten[1].legs = Len(ulegs)
         /\ uwritten[1].connects = uconnects

\* the connection of a call failed behind the request, after a connect()
C34_Witness ==
    /\ upc = "idle"
    /\ ureq.fn = "call"
    /\ uconnects = 1
    /\ Len(uwritten) = 1
    /\ uout = "reset"

(***************************************************************************)
(* C35.  The local-domain socket or TCP.                                   *)
(***************************************************************************)
\* C35 as stated: a connection is tried on the local-domain socket only
\* when a call has succeeded on the local-domain socket before or TCP is
\* disabled.
C35_AsStated ==
    \A i \in 1..Len(ulegs) :
        ulegs[i].t = "unix" => ulegs[i].unix \/ ~ucfg.use_tcp

\* C35 (amended): _url_connect tries the local-domain socket first exactly
\* when call_allow_unix is not false and either TCP is disabled or the
\* client has opened a connection, over TCP or the local-domain socket,
\* since it was made or last ran ping(); in every other case, and after a
\* local-domain connection that failed, it opens TCP.
C35_Amended ==
    \A i \in 1..Len(ulegs) :
        /\ ulegs[i].first =>
             (ulegs[i].t = "unix" <=>
                ulegs[i].allow /\ (ulegs[i].opened \/ ~ucfg.use_tcp))
        /\ ~ulegs[i].first => ulegs[i].t = "tcp" /\ ~ulegs[i - 1].ok

\* the first call of a client went over TCP and its second call over the
\* local-domain socket
C35_Witness ==
    /\ ucfg.use_tcp
    /\ uhist.n = 2
    /\ ~uhist.unix
    /\ ulegs # <<>>
    /\ ulegs[1].t = "unix"
    /\ ulegs[1].opened
    /\ ~ulegs[1].unix

(***************************************************************************)
(* SpecQuit: the end of one worker that serves.  Up to MaxQuits            *)
(* quitquitquit requests arrive on connections of their own, and the       *)
(* worker may be interrupted.  The event loop runs what is in its queue    *)
(* in the order in which it was put there: the _real_shutdown that a       *)
(* handler has put there with call_soon runs behind the tasks that were    *)
(* ready before it.                                                        *)
(***************************************************************************)
MaxQuits == 3       \* quitquitquit requests that reach the worker

Quits == 1..MaxQuits

\* call_soon(self._real_shutdown), and the tasks that are ahead of it
QuitScheduled(r) ==
    /\ zpending' = zpending + 1
    /\ zahead' = IF zpending = 0
                 THEN { q \in Quits : q # r /\ zreq[q] = "ready" }
                 ELSE zahead

\* the request r has been read: its task is ready to run the handler
QuitArrive(r) ==
    /\ zproc = "serving"
    /\ zreq[r] = "none"
    /\ zreq' = [zreq EXCEPT ![r] = "ready"]
    /\ UNCHANGED <<zhook, zahead, zpending, zhooks, zproc>>
    /\ UNCHANGED <<notLate, cutVars, headVars, connVars, lisVars, cfgVars>>

\* api_quitquitquit up to the first await of the hook, or up to its return
\* when the hook awaits nothing
QuitHook(r) ==
    /\ zproc = "serving"
    /\ zreq[r] = "ready"
    /\ zpending = 0 \/ r \in zahead
    /\ zhooks' = zhooks + 1
    /\ IF zhook
       THEN /\ zreq' = [zreq EXCEPT ![r] = "hook"]
            /\ UNCHANGED <<zpending, zahead>>
       ELSE /\ zreq' = [zreq EXCEPT ![r] = "scheduled"]
            /\ QuitScheduled(r)
    /\ UNCHANGED <<zhook, zproc>>
    /\ UNCHANGED <<notLate, cutVars, headVars, connVars, lisVars, cfgVars>>

\* api_quitquitquit behind the hook that has awaited
QuitReturn(r) ==
    /\ zproc = "serving"
    /\ zreq[r] = "hook"
    /\ zpending = 0 \/ r \in zahead
    /\ zreq' = [zreq EXCEPT ![r] = "scheduled"]
    /\ QuitScheduled(r)
    /\ UNCHANGED <<zhook, zhooks, zproc>>
    /\ UNCHANGED <<notLate, cutVars, headVars, connVars, lisVars, cfgVars>>

\* _real_shutdown, called by the event loop: os._exit
QuitRealShutdown ==
    /\ zproc = "serving"
    /\ zpending > 0
    /\ \A q \in zahead : zreq[q] \notin {"ready"}
    /\ zproc' = "exited"
    /\ UNCHANGED <<zhook, zreq, zahead, zpending, zhooks>>
    /\ UNCHANGED <<notLate, cutVars, headVars, connVars, lisVars, cfgVars>>

\* KeyboardInterrupt.  asyncio.run cancels the tasks and runs the loop
\* until they are done: a handler that awaits the hook goes on behind its
\* bare except, and a _real_shutdown in the queue exits the process;
\* otherwise the finally of _process_run runs the hook and exits
QuitInterrupt ==
    /\ zproc = "serving"
    /\ zproc' = "exited"
    /\ zhooks' = IF zpending > 0 \/ \E q \in Quits : zreq[q] = "hook"
                 THEN zhooks ELSE zhooks + 1
    /\ UNCHANGED <<zhook, zreq, zahead, zpending>>
    /\ UNCHANGED <<notLate, cutVars, headVars, connVars, lisVars, cfgVars>>

InitQuit ==
    /\ zhook \in BOOLEAN
    /\ zreq = [r \in Quits |-> "none"]
    /\ zahead = {}
    /\ zpending = 0
    /\ zhooks = 0
    /\ zproc = "serving"
    /\ IdleCut
    /\ IdleHead
    /\ IdleConn
    /\ IdleListen
    /\ IdleConfig
    /\ IdleClient
    /\ IdleWorker
    /\ IdleLookup
    /\ IdleLife
    /\ IdlePar
    /\ IdleChain
    /\ IdleExc
    /\ IdleCodec
    /\ IdleApi
    /\ IdleCall

NextQuit ==
    \/ \E r \in Quits : QuitArrive(r)
    \/ \E r \in Quits : QuitHook(r)
    \/ \E r \in Quits : QuitReturn(r)
    \/ QuitRealShutdown
    \/ QuitInterrupt

SpecQuit == InitQuit /\ [][NextQuit]_vars

\* C37 as stated: shutdown() is called at most once while the worker
\* lives and exactly once when it has exited, however many quitquitquit
\* requests are in flight and whether or not it is interrupted.
C37_AsStated ==
    /\ zhooks <= 1
    /\ zproc = "exited" => zhooks = 1

(***************************************************************************)
(* SpecListen: _process_run of one worker from its start until it serves,  *)
(* under each setting of worker_use_tcp and worker_use_unixdomain, and     *)
(* clients that read the url-file once it holds a url and then connect as  *)
(* _url_connect does for a client that has not connected before.           *)
(***************************************************************************)
MaxReaders == 3     \* clients that read the url-file

Readers == 1..MaxReaders

WorkerConfigs == [use_tcp : BOOLEAN, use_unixdomain : BOOLEAN]

\* the host and port that _process_run hands to _make_url
SockDesc(cfg) == IF cfg.use_tcp THEN "host:port" ELSE "unix-domain:0"

\* _process_run: the TCP socket is bound and listens if worker_use_tcp,
\* and else only the description is chosen
ProcessRunSockDesc ==
    /\ npc = "start"
    /\ npc' = "described"
    /\ ntcp' = ncfg.use_tcp
    /\ UNCHANGED <<ncfg, nunix, nurl, ncli>>
    /\ UNCHANGED <<notLate, cutVars, headVars, connVars, quitVars, cfgVars>>

\* with open(self._urlfile, 'w'): the file is there and empty
ProcessRunOpenUrlFile ==
    /\ npc = "described"
    /\ nurl = "none"
    /\ nurl' = "empty"
    /\ UNCHANGED <<ncfg, npc, ntcp, nunix, ncli>>
    /\ UNCHANGED <<notLate, cutVars, headVars, connVars, quitVars, cfgVars>>

\* fd.write(self._url) and the end of the with block
ProcessRunWriteUrlFile ==
    /\ nurl = "empty"
    /\ nurl' = SockDesc(ncfg)
    /\ npc' = "written"
    /\ UNCHANGED <<ncfg, ntcp, nunix, ncli>>
    /\ UNCHANGED <<notLate, cutVars, headVars, connVars, quitVars, cfgVars>>

\* _main_httpd_loop: start_server on the socket if worker_use_tcp,
\* start_unix_server if worker_use_unixdomain, and serve_forever
ListenMainHttpdLoop ==
    /\ npc = "written"
    /\ npc' = "serving"
    /\ nunix' = ncfg.use_unixdomain
    /\ UNCHANGED <<ncfg, ntcp, nurl, ncli>>
    /\ UNCHANGED <<notLate, cutVars, headVars, connVars, quitVars, cfgVars>>

\* connect(): the client reads the url-file, which holds a url
ClientReadUrl(c) ==
    /\ ncli[c] = "idle"
    /\ nurl \notin {"none", "empty"}
    /\ ncli' = [ncli EXCEPT ![c] = "read"]
    /\ UNCHANGED <<ncfg, npc, ntcp, nunix, nurl>>
    /\ UNCHANGED <<notLate, cutVars, headVars, connVars, quitVars, cfgVars>>

\* _url_connect of a client with no _peeraddr: the local-domain socket if
\* TCP is disabled, and TCP to the host of the url if that is not tried
\* or fails; 'unix-domain' is not a host that resolves
ClientUrlConnect(c) ==
    /\ ncli[c] = "read"
    /\ ncli' = [ncli EXCEPT ![c] =
                  IF UnixAllowed(TRUE, "none", ncfg) /\ nunix THEN "unix"
                  ELSE IF nurl = "host:port" /\ ntcp THEN "tcp"
                  ELSE "failed"]
    /\ UNCHANGED <<ncfg, npc, ntcp, nunix, nurl>>
    /\ UNCHANGED <<notLate, cutVars, headVars, connVars, quitVars, cfgVars>>

InitListen ==
    /\ ncfg \in WorkerConfigs
    /\ npc = "start"
    /\ ntcp = FALSE
    /\ nunix = FALSE
    /\ nurl = "none"
    /\ ncli = [c \in Readers |-> "idle"]
    /\ IdleCut
    /\ IdleHead
    /\ IdleConn
    /\ IdleQuit
    /\ IdleConfig
    /\ IdleClient
    /\ IdleWorker
    /\ IdleLookup
    /\ IdleLife
    /\ IdlePar
    /\ IdleChain
    /\ IdleExc
    /\ IdleCodec
    /\ IdleApi
    /\ IdleCall

NextListen ==
    \/ ProcessRunSockDesc
    \/ ProcessRunOpenUrlFile
    \/ ProcessRunWriteUrlFile
    \/ ListenMainHttpdLoop
    \/ \E c \in Readers : ClientReadUrl(c)
    \/ \E c \in Readers : ClientUrlConnect(c)

SpecListen == InitListen /\ [][NextListen]_vars

\* the listener that the url in the url-file names accepts connections
AdvertisedListens == IF nurl = "host:port" THEN ntcp ELSE nunix

\* C38 as stated: whenever the url-file holds a url, the listener it
\* names accepts connections, with TCP and in local-domain-only mode, and
\* no client that has read the url-file fails to connect.
C38_AsStated ==
    /\ nurl \notin {"none", "empty"} => AdvertisedListens
    /\ \A c \in Readers : ncli[c] # "failed"

(***************************************************************************)
(* SpecConfig: Configuration.configure, called with an argument list,      *)
(* with two configuration files on disk: the default one ("D") and         *)
(* another ("O").  Arguments and lines are sequences of tokens.  Each      *)
(* call of configure is a frame of gstack; the interpreter gives up with   *)
(* RecursionError when RecursionLimit calls are open.                      *)
(***************************************************************************)
RecursionLimit == 4     \* nested calls of configure the interpreter allows
MaxArgs == 2            \* arguments of the outermost call

\* the attributes of the configuration that the arguments of the model name
ConfigKeys == {"worker_nice", "worker_config", "app_data_dir", "worker_name"}

ConfigArgs ==
    { <<"--", "worker-nice", "=", "1">>,
      <<"--", "worker-config", "=", "D">>,
      <<"--", "worker-config", "=", "O">>,
      <<"--", "worker-config", "=", "true">>,
      <<"--", "app-data-dir", "=", "d">>,
      <<"--", "worker-name", "=", "w">>,
      <<"--", "_secret", "=", "1">>,
      <<"positional">> }

ConfigArgLists == UNION { [1..n -> ConfigArgs] : n \in 0..MaxArgs }

\* what a configuration file may hold
ConfigLines ==
    { <<>>,
      << <<"#", "comment">>, <<>> >>,
      << <<"#", "comment">>, <<"--", "worker_nice", "=", "1", "#", "c">> >>,
      << <<"worker_config", "=", "D">> >>,
      << <<"worker_config", "=", "O">> >>,
      << <<"worker_config", "=", "true">> >> }

ConfigFiles ==
    {[exists |-> FALSE, lines |-> <<>>]}
        \cup {[exists |-> TRUE, lines |-> l] : l \in ConfigLines}

\* key.replace('-', '_')
Underscored(key) ==
    CASE key = "worker-nice" -> "worker_nice"
      [] key = "worker-config" -> "worker_config"
      [] key = "app-data-dir" -> "app_data_dir"
      [] key = "worker-name" -> "worker_name"
      [] OTHER -> key

RECURSIVE UpToHash(_)
UpToHash(line) ==
    IF line = <<>> \/ Head(line) = "#" THEN <<>>
    ELSE <<Head(line)>> \o UpToHash(Tail(line))

\* _clean_line: a leading '--' is dropped, and what follows a '#'
CleanLine(line) ==
    UpToHash(IF line # <<>> /\ Head(line) = "--" THEN Tail(line) ELSE line)

\* the list that _configure_from_file makes of the lines that are not empty
RECURSIVE FileConfig(_)
FileConfig(lines) ==
    IF lines = <<>> THEN <<>>
    ELSE IF CleanLine(Head(lines)) = <<>> THEN FileConfig(Tail(lines))
    ELSE << <<"--">> \o CleanLine(Head(lines)) >> \o FileConfig(Tail(lines))

\* default_config_file(): os.path.join of two attributes, which are None
\* until they are set
DefaultConfigFile(set) ==
    IF {"app_data_dir", "worker_name"} \subseteq set THEN "D" ELSE "TypeError"

\* a call of configure that starts
ConfigFrame(args, strict, set_defaults) ==
    [args |-> args, i |-> 1, consumed |-> FALSE, unconsumed |-> FALSE,
     strict |-> strict, set_defaults |-> set_defaults, phase |-> "args"]

\* the innermost call that catches OSError: one that reads the default file
RECURSIVE Catcher(_)
Catcher(stack) ==
    IF stack = <<>> THEN 0
    ELSE IF stack[Len(stack)].phase = "in_default" THEN Len(stack)
    ELSE Catcher(SubSeq(stack, 1, Len(stack) - 1))

\* an exception comes out of the innermost call of the stack
ConfigRaise(exc, stack) ==
    IF exc = "OSError" /\ Catcher(stack) > 0
    THEN /\ gstack' = [SubSeq(stack, 1, Catcher(stack))
                         EXCEPT ![Catcher(stack)].phase = "done"]
         /\ gout' = gout
    ELSE /\ gstack' = <<>>
         /\ gout' = exc

\* _configure_from_file(path), called by the innermost call of the stack
ConfigureFromFile(path, stack) ==
    IF path = "TypeError" THEN ConfigRaise("TypeError", stack)
    ELSE IF ~gfiles[path].exists THEN ConfigRaise("OSError", stack)
    ELSE IF Len(stack) >= RecursionLimit
    THEN ConfigRaise("RecursionError", stack)
    ELSE /\ gstack' = Append(stack,
                        ConfigFrame(FileConfig(gfiles[path].lines), TRUE, FALSE))
         /\ gout' = gout

\* the frame with which the loop goes on behind the argument arg
ArgDone(f, hit, nested) ==
    [f EXCEPT !.i = f.i + 1,
              !.consumed = f.consumed \/ hit,
              !.unconsumed = f.unconsumed \/ ~hit,
              !.phase = IF nested THEN "in_arg" ELSE "args"]

IsOption(arg) == Len(arg) >= 3 /\ arg[1] = "--" /\ arg[3] = "="

OptionKey(arg) == Underscored(arg[2])

OptionVal(arg) == IF Len(arg) >= 4 THEN arg[4] ELSE ""

\* configure: one turn of the loop over the arguments
ConfigureArg ==
    /\ gout = "running"
    /\ gstack # <<>>
    /\ gstack[Len(gstack)].phase = "args"
    /\ gstack[Len(gstack)].i <= Len(gstack[Len(gstack)].args)
    /\ LET f == gstack[Len(gstack)]
           arg == f.args[f.i]
       IN  IF ~IsOption(arg) \/ OptionKey(arg) \notin ConfigKeys \cup {"_secret"}
           THEN /\ gstack' = [gstack EXCEPT ![Len(gstack)] = ArgDone(f, FALSE, FALSE)]
                /\ UNCHANGED <<gset, gout>>
           ELSE IF OptionKey(arg) = "_secret"
           THEN /\ ConfigRaise("KeyError", gstack)
                /\ UNCHANGED gset
           ELSE /\ gset' = gset \cup {OptionKey(arg)}
                /\ IF OptionKey(arg) = "worker_config"
                   THEN ConfigureFromFile(
                            IF OptionVal(arg) = "true"
                            THEN DefaultConfigFile(gset')
                            ELSE OptionVal(arg),
                            [gstack EXCEPT ![Len(gstack)] = ArgDone(f, TRUE, TRUE)])
                   ELSE /\ gstack' = [gstack EXCEPT
                                        ![Len(gstack)] = ArgDone(f, TRUE, FALSE)]
                        /\ gout' = gout
    /\ UNCHANGED gfiles
    /\ UNCHANGED <<notLate, cutVars, headVars, connVars, quitVars, lisVars>>

\* configure behind the loop: what was not consumed, the defaults, and
\* the default configuration file if nothing was consumed
ConfigureTail ==
    /\ gout = "running"
    /\ gstack # <<>>
    /\ gstack[Len(gstack)].phase = "args"
    /\ gstack[Len(gstack)].i > Len(gstack[Len(gstack)].args)
    /\ LET f == gstack[Len(gstack)]
       IN  IF f.unconsumed /\ f.strict
           THEN /\ ConfigRaise("ValueError", gstack)
                /\ UNCHANGED gset
           ELSE /\ gset' = IF f.set_defaults THEN ConfigKeys ELSE gset
                /\ IF f.consumed
                   THEN /\ gstack' = [gstack EXCEPT ![Len(gstack)].phase = "done"]
                        /\ gout' = gout
                   ELSE ConfigureFromFile(
                            DefaultConfigFile(gset'),
                            [gstack EXCEPT ![Len(gstack)].phase = "in_default"])
    /\ UNCHANGED gfiles
    /\ UNCHANGED <<notLate, cutVars, headVars, connVars, quitVars, lisVars>>

\* return unconsumed
ConfigureReturn ==
    /\ gout = "running"
    /\ gstack # <<>>
    /\ gstack[Len(gstack)].phase = "done"
    /\ IF Len(gstack) = 1
       THEN /\ gstack' = <<>>
            /\ gout' = "returned"
       ELSE /\ gstack' = [SubSeq(gstack, 1, Len(gstack) - 1) EXCEPT ![Len(gstack) - 1].phase =
                            IF @ = "in_arg" THEN "args" ELSE "done"]
            /\ gout' = gout
    /\ UNCHANGED <<gfiles, gset>>
    /\ UNCHANGED <<notLate, cutVars, headVars, connVars, quitVars, lisVars>>

InitConfig ==
    /\ gfiles \in [{"D", "O"} -> ConfigFiles]
    /\ \E args \in ConfigArgLists, strict \in BOOLEAN :
          gstack = <<ConfigFrame(args, strict, TRUE)>>
    /\ gset = {}
    /\ gout = "running"
    /\ IdleCut
    /\ IdleHead
    /\ IdleConn
    /\ IdleQuit
    /\ IdleListen
    /\ IdleClient
    /\ IdleWorker
    /\ IdleLookup
    /\ IdleLife
    /\ IdlePar
    /\ IdleChain
    /\ IdleExc
    /\ IdleCodec
    /\ IdleApi
    /\ IdleCall

NextConfig ==
    \/ ConfigureArg
    \/ ConfigureTail
    \/ ConfigureReturn

SpecConfig == InitConfig /\ [][NextConfig]_vars

\* C39 as stated: whatever the arguments and the files, configure comes
\* to its end by itself: the calls nested in it never use up the stack of
\* the interpreter.
C39_AsStated == gout # "RecursionError"

(***************************************************************************)
(* SpecHandoff: the chain of SpecChain, in which the handler of the last   *)
(* hop may abort behind its item.                                          *)
(***************************************************************************)
\* the handler of the last hop raises OSError behind its item, or its
\* worker exits: raw_method writes nothing for it, and the worker lets go
\* of the initiator's connection
HopAbort(d) ==
    /\ hops[d].pc = "yielded"
    /\ d = count
    /\ hops' = [hops EXCEPT ![d].pc = "aborted"]
    /\ holders' = holders \ {d}
    /\ eof' = (holders \ {d} = {})
    /\ UNCHANGED <<count, callRes, inflight>>
    /\ UNCHANGED <<cpc, buffer, ctype, readerOpen, finished, yielded, outcome,
                   chunks, peerGone>>
    /\ UNCHANGED notChain

InitHandoff == InitChain

NextHandoff ==
    \/ \E d \in Hops : HopYield(d)
    \/ \E d \in Hops : HopDelegate(d)
    \/ \E d \in Hops : HopAck(d)
    \/ \E d \in Hops : HopEnd(d)
    \/ \E d \in Hops : HopClose(d)
    \/ \E d \in Hops : HopAbort(d)
    \/ CallRecv \/ DecodeCut \/ DecodeRead \/ DecodeEnd

SpecHandoff == InitHandoff /\ [][NextHandoff]_vars

\* the handler of hop d has handed its reply on with call_reply_to
HasDelegated(d) ==
    d < count /\ hops[d].pc \in {"calling", "acked", "sleep", "closed"}

\* C31 as stated: a hop that has delegated its reply writes no byte to the
\* initiator's connection from then on, and the iteration of the initiator
\* ends cleanly only if the last hop was not aborted, and with
\* IncompleteStream if it was.
C31_AsStated ==
    /\ [][\A d \in Hops : HasDelegated(d) => hops'[d].sent = hops[d].sent]_vars
    /\ [](cpc = "done" =>
            /\ outcome = "end" => hops[count].pc # "aborted"
            /\ hops[count].pc = "aborted" => outcome = "IncompleteStream")
====
